---- MODULE Spec2Model ----
(***************************************************************************)
(* Model of the authoritative DNS responder of interactsh                  *)
(* (pkg/server/dns_server.go): ServeDNS and the handlers it dispatches to, *)
(* the custom-records engine, the correlation extractor of                 *)
(* handleInteraction and the origin-IP resolver getMsgHost.                *)
(*                                                                         *)
(* Strings are TLA+ strings handled character by character (SubSeq), so    *)
(* that case folding, splitting and prefix/suffix tests are computed as    *)
(* the Go code computes them.                                              *)
(***************************************************************************)
EXTENDS Integers, Sequences, FiniteSets, TLC

(***************************************************************************)
(* Go string helpers (strings.ToLower, HasPrefix, HasSuffix, Split, ...).  *)
(***************************************************************************)
UpperChars == "ABCDEFGHIJKLMNOPQRSTUVWXYZ"

LowerChars == "abcdefghijklmnopqrstuvwxyz"

DigitChars == "0123456789"

HexChars == "0123456789abcdef"

Char(s, i) == SubSeq(s, i, i)

\* position of the first character of s at or after i that lies in the set
\* seps, 0 if none
RECURSIVE FirstSepFrom(_, _, _)
FirstSepFrom(s, seps, i) ==
  IF i > Len(s) THEN 0
  ELSE IF Char(s, i) \in seps THEN i
  ELSE FirstSepFrom(s, seps, i + 1)

UpperSet == {Char(UpperChars, i) : i \in 1..Len(UpperChars)}

AlnumSet ==
  UpperSet \cup {Char(LowerChars, i) : i \in 1..Len(LowerChars)}
           \cup {Char(DigitChars, i) : i \in 1..Len(DigitChars)}

\* strings.IndexByte(set, c) + 1, 0 when c does not occur in set
IndexIn(c, set) == FirstSepFrom(set, {c}, 1)

LowerChar(c) ==
  IF c \in UpperSet THEN Char(LowerChars, IndexIn(c, UpperChars)) ELSE c

RECURSIVE ToLower(_)
ToLower(s) ==
  IF Len(s) = 0 THEN ""
  ELSE LowerChar(Char(s, 1)) \o ToLower(SubSeq(s, 2, Len(s)))

HasPrefix(s, p) == Len(s) >= Len(p) /\ SubSeq(s, 1, Len(p)) = p

HasSuffix(s, p) == Len(s) >= Len(p) /\ SubSeq(s, Len(s) - Len(p) + 1, Len(s)) = p

\* stringsutil.HasSuffixI: suffix test after lower-casing both sides
HasSuffixI(s, p) == HasSuffix(ToLower(s), ToLower(p))

\* the characters of s, as a set
CharsOf(s) == {Char(s, i) : i \in 1..Len(s)}

\* strings.Contains(s, c) for a one-character c
ContainsChar(s, c) == c \in CharsOf(s)

FirstSep(s, seps) == FirstSepFrom(s, CharsOf(seps), 1)

\* the pieces of s between the characters of the set seps, empty pieces kept
RECURSIVE SplitAt(_, _)
SplitAt(s, seps) ==
  LET k == FirstSepFrom(s, seps, 1)
  IN IF k = 0 THEN <<s>>
     ELSE <<SubSeq(s, 1, k - 1)>> \o SplitAt(SubSeq(s, k + 1, Len(s)), seps)

\* strings.Split(s, sep) for a one-character separator; also the cut used by
\* stringsutil.SplitAny when seps holds several characters
SplitOn(s, seps) == SplitAt(s, CharsOf(seps))

Split(s, sep) == SplitOn(s, sep)

\* strings.SplitN(s, sep, 2)
SplitN2(s, sep) ==
  LET k == FirstSep(s, sep)
  IN IF k = 0 THEN <<s>>
     ELSE <<SubSeq(s, 1, k - 1), SubSeq(s, k + 1, Len(s))>>

\* strings.Join(parts, sep)
RECURSIVE Join(_, _)
Join(parts, sep) ==
  IF Len(parts) = 0 THEN ""
  ELSE IF Len(parts) = 1 THEN parts[1]
  ELSE parts[1] \o sep \o Join(Tail(parts), sep)

\* dns.Fqdn: append the root dot unless the name already ends with it
Fqdn(s) == IF HasSuffix(s, ".") THEN s ELSE s \o "."

\* strconv.Itoa for n >= 0
RECURSIVE Itoa(_)
Itoa(n) ==
  IF n < 10 THEN Char(DigitChars, n + 1)
  ELSE Itoa(n \div 10) \o Char(DigitChars, (n % 10) + 1)

RECURSIVE Repeat(_, _)
Repeat(c, n) == IF n = 0 THEN "" ELSE c \o Repeat(c, n - 1)

IsAlnumChar(c) == c \in AlnumSet

IsAlphanumeric(s) == Len(s) > 0 /\ \A i \in 1..Len(s) : IsAlnumChar(Char(s, i))

\* splitSubdomainParts: cut a label at every '-' and '_', empty pieces kept
RECURSIVE splitSubdomainPartsFrom(_, _, _)
splitSubdomainPartsFrom(s, r, p) ==
  IF Len(s) = 0 THEN Append(r, p)
  ELSE IF Char(s, 1) = "-" \/ Char(s, 1) = "_"
       THEN splitSubdomainPartsFrom(SubSeq(s, 2, Len(s)), Append(r, p), "")
       ELSE splitSubdomainPartsFrom(SubSeq(s, 2, Len(s)), r, p \o Char(s, 1))

splitSubdomainParts(s) == splitSubdomainPartsFrom(s, <<>>, "")

(***************************************************************************)
(* net.IP: an address is its byte sequence; the nil IP is the empty        *)
(* sequence, a 4-byte or a 16-byte sequence otherwise.                     *)
(***************************************************************************)
NilIP == <<>>

v4InV6Prefix == <<0, 0, 0, 0, 0, 0, 0, 0, 0, 0, 255, 255>>

\* The IPv6 literals the model draws, with their 16 bytes (net.ParseIP of
\* the text, net.IP.String of the bytes).  Any other text with a ':' is not
\* drawn by the model.
V6Literals ==
  [s \in {"::1", "2001:db8::1"} |->
     IF s = "::1" THEN <<0, 0, 0, 0, 0, 0, 0, 0, 0, 0, 0, 0, 0, 0, 0, 1>>
     ELSE <<32, 1, 13, 184, 0, 0, 0, 0, 0, 0, 0, 0, 0, 0, 0, 1>>]

IsDigits(s) == Len(s) > 0 /\ \A i \in 1..Len(s) : IndexIn(Char(s, i), DigitChars) > 0

\* decimal value of a string of digits
RECURSIVE Atoi(_)
Atoi(s) ==
  IF Len(s) = 0 THEN 0
  ELSE Atoi(SubSeq(s, 1, Len(s) - 1)) * 10 + (IndexIn(Char(s, Len(s)), DigitChars) - 1)

\* one field of a dotted quad: 1 to 3 digits, no leading zero, at most 255
IsV4Field(f) ==
  /\ IsDigits(f)
  /\ Len(f) <= 3
  /\ (Len(f) > 1 => Char(f, 1) # "0")
  /\ Atoi(f) <= 255

IsV4Text(s) ==
  /\ Len(Split(s, ".")) = 4
  /\ \A i \in 1..4 : IsV4Field(Split(s, ".")[i])

\* net.ParseIP: the 16-byte form of a valid address, nil otherwise
ParseIP(s) ==
  IF IsV4Text(s)
  THEN v4InV6Prefix \o [i \in 1..4 |-> Atoi(Split(s, ".")[i])]
  ELSE IF s \in DOMAIN V6Literals THEN V6Literals[s]
  ELSE NilIP

\* net.IP.To4: nil unless the address is an IPv4 address
To4(ip) ==
  IF Len(ip) = 4 THEN ip
  ELSE IF Len(ip) = 16 /\ SubSeq(ip, 1, 12) = v4InV6Prefix THEN SubSeq(ip, 13, 16)
  ELSE NilIP

\* net.IP.Equal; two nil addresses have the same length and the same bytes
IPEqual(ip, y) ==
  IF Len(ip) = Len(y) THEN ip = y
  ELSE IF Len(ip) = 4 /\ Len(y) = 16
       THEN SubSeq(y, 1, 12) = v4InV6Prefix /\ ip = SubSeq(y, 13, 16)
  ELSE IF Len(ip) = 16 /\ Len(y) = 4
       THEN SubSeq(ip, 1, 12) = v4InV6Prefix /\ SubSeq(ip, 13, 16) = y
  ELSE FALSE

HexByte(b) == Char(HexChars, (b \div 16) + 1) \o Char(HexChars, (b % 16) + 1)

RECURSIVE HexEncode(_)
HexEncode(bs) == IF Len(bs) = 0 THEN "" ELSE HexByte(Head(bs)) \o HexEncode(Tail(bs))

\* net.IP.String
IPString(ip) ==
  IF Len(ip) = 0 THEN "<nil>"
  ELSE IF To4(ip) # NilIP
       THEN Join([i \in 1..4 |-> Itoa(To4(ip)[i])], ".")
  ELSE IF Len(ip) = 16
       THEN IF \E s \in DOMAIN V6Literals : V6Literals[s] = ip
            THEN CHOOSE s \in DOMAIN V6Literals : V6Literals[s] = ip
            ELSE "?v6"
  ELSE "?" \o HexEncode(ip)

\* hex.DecodeString of lower-case hex digits (the only ones HEX_IP_REGEX admits)
RECURSIVE HexDecode(_)
HexDecode(s) ==
  IF Len(s) < 2 THEN <<>>
  ELSE <<(IndexIn(Char(s, 1), HexChars) - 1) * 16 + (IndexIn(Char(s, 2), HexChars) - 1)>>
       \o HexDecode(SubSeq(s, 3, Len(s)))

\* HEX_IP_REGEX = ^[a-f0-9]{8}$
HexIPLen == 8

HEX_IP_REGEX(s) ==
  Len(s) = HexIPLen /\ \A i \in 1..Len(s) : IndexIn(Char(s, i), HexChars) > 0

Pow2(n) == IF n = 0 THEN 1 ELSE IF n = 1 THEN 2 ELSE IF n = 2 THEN 4
           ELSE IF n = 3 THEN 8 ELSE IF n = 4 THEN 16 ELSE IF n = 5 THEN 32
           ELSE IF n = 6 THEN 64 ELSE IF n = 7 THEN 128 ELSE 256

\* b & m for the mask byte m whose leading ones number k (0..8)
MaskByte(b, k) == (b \div Pow2(8 - k)) * Pow2(8 - k)

\* number of mask bits that fall into byte i (1-based) of a prefix of length n
BitsInByte(n, i) ==
  IF n >= 8 * i THEN 8 ELSE IF n <= 8 * (i - 1) THEN 0 ELSE n - 8 * (i - 1)

\* dtoi of the net package on a string of digits, from digit i on with n
\* read so far: leading zeros count for nothing, and a value that reaches
\* 0xFFFFFF is refused
RECURSIVE Dtoi(_, _, _)
Dtoi(s, i, n) ==
  IF i > Len(s) THEN [ok |-> TRUE, n |-> n]
  ELSE IF n * 10 + (IndexIn(Char(s, i), DigitChars) - 1) >= 16777215
       THEN [ok |-> FALSE, n |-> 16777215]
  ELSE Dtoi(s, i + 1, n * 10 + (IndexIn(Char(s, i), DigitChars) - 1))

\* net.ParseCIDR: [ok, ip (the network's bytes, 4 for IPv4), ones]; ok is
\* FALSE for a malformed block, for which the code is handed a nil *IPNet
ParseCIDR(s) ==
  LET parts == SplitN2(s, "/")
      addr  == ParseIP(parts[1])
      v4    == To4(addr)
      bytes == IF v4 # NilIP THEN v4 ELSE addr
  IN IF /\ Len(parts) = 2
        /\ addr # NilIP
        /\ IsDigits(parts[2])
        /\ Dtoi(parts[2], 1, 0).ok
        /\ Dtoi(parts[2], 1, 0).n <= 8 * Len(bytes)
     THEN [ok |-> TRUE,
           ip |-> [i \in 1..Len(bytes) |->
                     MaskByte(bytes[i], BitsInByte(Dtoi(parts[2], 1, 0).n, i))],
           ones |-> Dtoi(parts[2], 1, 0).n]
     ELSE [ok |-> FALSE, ip |-> NilIP, ones |-> 0]

\* (*net.IPNet).Contains on a non-nil network
CIDRContains(cidr, ip) ==
  LET y == IF To4(ip) # NilIP THEN To4(ip) ELSE ip
  IN /\ Len(y) = Len(cidr.ip)
     /\ \A i \in 1..Len(y) :
          MaskByte(y[i], BitsInByte(cidr.ones, i)) = cidr.ip[i]

(***************************************************************************)
(* DNS record types (github.com/miekg/dns) and the ACME constants.         *)
(***************************************************************************)
TypeA == 1

TypeNS == 2

TypeCNAME == 5

TypeSOA == 6

TypePTR == 12

TypeMX == 15

TypeTXT == 16

TypeAAAA == 28

TypeOPT == 41

TypeANY == 255

\* dns.Type.String for the types above
TypeString(t) ==
  IF t = TypeA THEN "A" ELSE IF t = TypeNS THEN "NS" ELSE IF t = TypeCNAME THEN "CNAME"
  ELSE IF t = TypeSOA THEN "SOA" ELSE IF t = TypePTR THEN "PTR" ELSE IF t = TypeMX THEN "MX"
  ELSE IF t = TypeTXT THEN "TXT" ELSE IF t = TypeAAAA THEN "AAAA"
  ELSE IF t = TypeOPT THEN "OPT" ELSE IF t = TypeANY THEN "ANY"
  ELSE "TYPE" \o Itoa(t)

\* acme.DNSChallengeString
DNSChallengeString == "_acme-challenge."

\* acme.CertificateAuthority
CertificateAuthority == "letsencrypt.org"

\* A resource record: owner name, type, TTL, the textual target (address,
\* host name or text) and the numeric fields of MX (preference) and SOA
\* (serial, expire, minttl).
RR(name, rrtype, ttl, target, nums) ==
  [Name |-> name, Rrtype |-> rrtype, Ttl |-> ttl, Target |-> target, Nums |-> nums]

(***************************************************************************)
(* Construction: NewDNSServer and newCustomDNSRecordsServer.               *)
(***************************************************************************)
\* m[k] = v on a Go map held as a function
MapPut(m, k, v) == [y \in (DOMAIN m) \cup {k} |-> IF y = k THEN v ELSE m[y]]

EmptyMap == [y \in {} |-> ""]

defaultCustomRecords ==
  [k \in {"aws", "alibaba", "localhost", "oracle"} |->
     IF k = "aws" THEN "169.254.169.254"
     ELSE IF k = "alibaba" THEN "100.100.100.200"
     ELSE IF k = "localhost" THEN "127.0.0.1"
     ELSE "192.0.0.192"]

defaultCustomV6Records == [k \in {"localhost"} |-> "::1"]

\* the loop over options.DnsSubdomainRecords: entries "name=ip", an entry
\* without '=' or with an unparseable address is dropped, the family of the
\* address picks the overlay
RECURSIVE subdomainRecordsFrom(_, _, _)
subdomainRecordsFrom(list, i, acc) ==
  IF i > Len(list) THEN acc
  ELSE LET parts == SplitN2(list[i], "=")
       IN IF Len(parts) # 2 \/ ParseIP(parts[2]) = NilIP
          THEN subdomainRecordsFrom(list, i + 1, acc)
          ELSE IF To4(ParseIP(parts[2])) # NilIP
               THEN subdomainRecordsFrom(list, i + 1,
                      [acc EXCEPT !.v4 = MapPut(acc.v4, ToLower(parts[1]), parts[2])])
               ELSE subdomainRecordsFrom(list, i + 1,
                      [acc EXCEPT !.v6 = MapPut(acc.v6, ToLower(parts[1]), parts[2])])

\* the two loops of readRecordsFromFile over the decoded maps (given as
\* sequences of <<key, value>> in iteration order): keys lower-cased, values
\* stored as read
RECURSIVE mergeRecords(_, _, _)
mergeRecords(m, pairs, i) ==
  IF i > Len(pairs) THEN m
  ELSE mergeRecords(MapPut(m, ToLower(pairs[i][1]), pairs[i][2]), pairs, i + 1)

\* readRecordsFromFile: file is [ok, ipv4, ipv6]; ok = FALSE stands for a
\* file that cannot be opened or decoded, which leaves the maps unchanged
readRecordsFromFile(c, file) ==
  IF ~file.ok THEN c
  ELSE [c EXCEPT !.records = mergeRecords(c.records, file.ipv4, 1),
                 !.v6Records = mergeRecords(c.v6Records, file.ipv6, 1)]

newCustomDNSRecordsServer(options) ==
  LET sub == subdomainRecordsFrom(options.DnsSubdomainRecords, 1,
                                  [v4 |-> EmptyMap, v6 |-> EmptyMap])
      server == [records |-> defaultCustomRecords,
                 v6Records |-> defaultCustomV6Records,
                 subdomainRecords |-> sub.v4,
                 subdomainV6Records |-> sub.v6]
  IN IF options.CustomRecords # ""
     THEN readRecordsFromFile(server, options.CustomRecordsFile)
     ELSE server

RECURSIVE nsDomainsFrom(_, _, _)
nsDomainsFrom(domains, i, acc) ==
  IF i > Len(domains) THEN acc
  ELSE nsDomainsFrom(domains, i + 1,
         MapPut(acc, Fqdn(domains[i]),
                <<"ns1." \o Fqdn(domains[i]), "ns2." \o Fqdn(domains[i])>>))

RECURSIVE mxDomainsFrom(_, _, _)
mxDomainsFrom(domains, i, acc) ==
  IF i > Len(domains) THEN acc
  ELSE mxDomainsFrom(domains, i + 1,
         MapPut(acc, Fqdn(domains[i]), "mail." \o Fqdn(domains[i])))

NewDNSServer(options) ==
  [options       |-> options,
   mxDomains     |-> mxDomainsFrom(options.Domains, 1, [y \in {} |-> ""]),
   nsDomains     |-> nsDomainsFrom(options.Domains, 1, [y \in {} |-> <<>>]),
   ipAddress     |-> ParseIP(options.IPAddress),
   ipv6Address   |-> ParseIP(options.IPv6Address),
   timeToLive    |-> options.DnsTTL,
   customRecords |-> newCustomDNSRecordsServer(options),
   TxtRecord     |-> ""]

(***************************************************************************)
(* The custom-records engine.  rand.Intn makes the resolvers               *)
(* nondeterministic: each returns the set of values the call can return.   *)
(***************************************************************************)
\* a variant of v4Candidates in which only the empty token contributes
RECURSIVE v4CandidatesEmptyOnly(_, _, _, _)
v4CandidatesEmptyOnly(c, subParts, i, ips) ==
  IF i > Len(subParts) THEN ips
  ELSE IF subParts[i] = ""
       THEN v4CandidatesEmptyOnly(c, subParts, i + 1, Append(ips, ""))
  ELSE v4CandidatesEmptyOnly(c, subParts, i + 1, ips)

\* the candidate list built by the loop of checkCustomResponse
RECURSIVE v4Candidates(_, _, _, _)
v4Candidates(c, subParts, i, ips) ==
  IF i > Len(subParts) THEN ips
  ELSE IF subParts[i] = ""
       THEN v4Candidates(c, subParts, i + 1, Append(ips, ""))
  ELSE IF HEX_IP_REGEX(subParts[i])
       THEN v4Candidates(c, subParts, i + 1, Append(ips, IPString(HexDecode(subParts[i]))))
  ELSE IF ToLower(subParts[i]) \in DOMAIN c.subdomainRecords
       THEN v4Candidates(c, subParts, i + 1,
                         Append(ips, c.subdomainRecords[ToLower(subParts[i])]))
  ELSE v4Candidates(c, subParts, i + 1, ips)

checkCustomResponse(c, zone) ==
  LET parts == SplitN2(zone, ".")
      subParts == splitSubdomainParts(parts[1])
      ips == v4Candidates(c, subParts, 1, <<>>)
  IN IF Len(parts) # 2 THEN {""}
     ELSE IF ToLower(parts[1]) \in DOMAIN c.records THEN {c.records[ToLower(parts[1])]}
     ELSE IF Len(subParts) = 1 THEN {""}
     ELSE IF Len(ips) = 0 THEN {""}
     ELSE {ips[k] : k \in 1..Len(ips)}

\* the candidate list built by the loop of checkCustomAAAAResponse
RECURSIVE v6Candidates(_, _, _, _)
v6Candidates(c, subParts, i, ips) ==
  IF i > Len(subParts) THEN ips
  ELSE IF subParts[i] = ""
       THEN v6Candidates(c, subParts, i + 1, Append(ips, ""))
  ELSE IF ToLower(subParts[i]) \in DOMAIN c.subdomainV6Records
       THEN v6Candidates(c, subParts, i + 1,
                         Append(ips, c.subdomainV6Records[ToLower(subParts[i])]))
  ELSE v6Candidates(c, subParts, i + 1, ips)

checkCustomAAAAResponse(c, zone) ==
  LET parts == SplitN2(zone, ".")
      subParts == splitSubdomainParts(parts[1])
      ips == v6Candidates(c, subParts, 1, <<>>)
  IN IF Len(parts) # 2 THEN {""}
     ELSE IF ToLower(parts[1]) \in DOMAIN c.v6Records THEN {c.v6Records[ToLower(parts[1])]}
     ELSE IF Len(subParts) = 1 THEN {""}
     ELSE IF Len(ips) = 0 THEN {""}
     ELSE {ips[k] : k \in 1..Len(ips)}

(***************************************************************************)
(* The Qtype handlers.  Each takes the reply m built so far and returns it *)
(* with the records the handler appends.                                   *)
(***************************************************************************)
\* a variant of dotDomainIn that falls back on the last configured apex
dotDomainInLastApex(h, table, zone) ==
  IF zone \in DOMAIN table THEN zone ELSE Fqdn(h.options.Domains[Len(h.options.Domains)])

\* a variant of dotDomainIn that never looks the zone up: always the primary apex
dotDomainInPrimaryOnly(h, table, zone) == Fqdn(h.options.Domains[1])

\* dotDomains := []string{zone, dns.Fqdn(h.options.Domains[0])} and the first
\* of the two that is a key of the table
dotDomainIn(h, table, zone) ==
  IF zone \in DOMAIN table THEN zone ELSE Fqdn(h.options.Domains[1])

\* the NS records and their glue appended by resultFunction / resultFunctionAAAA
RECURSIVE nsBlock(_, _, _, _)
nsBlock(h, zone, nsDomains, i) ==
  IF i > Len(nsDomains) THEN [Ns |-> <<>>, Extra |-> <<>>]
  ELSE LET rest == nsBlock(h, zone, nsDomains, i + 1)
       IN [Ns |-> <<RR(zone, TypeNS, h.timeToLive, nsDomains[i], <<>>)>> \o rest.Ns,
           Extra |-> <<RR(nsDomains[i], TypeA, h.timeToLive, IPString(h.ipAddress), <<>>)>>
                     \o rest.Extra]

resultFunction(h, zone, ipAddress, m) ==
  LET block == nsBlock(h, zone, h.nsDomains[dotDomainIn(h, h.nsDomains, zone)], 1)
  IN [m EXCEPT !.Answer = Append(@, RR(zone, TypeA, h.timeToLive, IPString(ipAddress), <<>>)),
               !.Ns = @ \o block.Ns,
               !.Extra = @ \o block.Extra]

resultFunctionAAAA(h, zone, ipAddress, m) ==
  LET block == nsBlock(h, zone, h.nsDomains[dotDomainIn(h, h.nsDomains, zone)], 1)
  IN [m EXCEPT !.Answer = Append(@, RR(zone, TypeAAAA, h.timeToLive, IPString(ipAddress), <<>>)),
               !.Ns = @ \o block.Ns,
               !.Extra = @ \o block.Extra]

\* record is the value checkCustomResponse returned
handleACNAMEANY(h, zone, m, record) ==
  IF record # ""
  THEN resultFunction(h, zone, ParseIP(record), m)
  ELSE resultFunction(h, zone, h.ipAddress, m)

\* record is the value checkCustomAAAAResponse returned
handleAAAACNAMEANY(h, zone, m, record) ==
  IF record # ""
  THEN resultFunctionAAAA(h, zone, ParseIP(record), m)
  ELSE resultFunctionAAAA(h, zone, h.ipv6Address, m)

handleMX(h, zone, m) ==
  [m EXCEPT !.Answer =
     Append(@, RR(zone, TypeMX, h.timeToLive, h.mxDomains[dotDomainIn(h, h.mxDomains, zone)], <<1>>))]

RECURSIVE nsAnswers(_, _, _, _)
nsAnswers(h, zone, nsDomains, i) ==
  IF i > Len(nsDomains) THEN <<>>
  ELSE <<RR(zone, TypeNS, h.timeToLive, nsDomains[i], <<>>)>> \o nsAnswers(h, zone, nsDomains, i + 1)

handleNS(h, zone, m) ==
  [m EXCEPT !.Answer = @ \o nsAnswers(h, zone, h.nsDomains[dotDomainIn(h, h.nsDomains, zone)], 1)]

\* the SOA is built from the first name server only (return inside the loop);
\* its header carries no TTL
handleSOA(h, zone, m) ==
  [m EXCEPT !.Answer =
     Append(@, RR(zone, TypeSOA, 0,
                  h.nsDomains[dotDomainIn(h, h.nsDomains, zone)][1] \o " " \o CertificateAuthority,
                  <<1, 60, 60>>))]

handleTXT(h, zone, m) ==
  [m EXCEPT !.Answer = Append(@, RR(zone, TypeTXT, 0, h.TxtRecord, <<>>))]

\* a variant of acmeTXT that answers the first record only
acmeTXTFirstOnly(zone, records, i) ==
  IF Len(records) = 0 THEN <<>>
  ELSE <<RR(zone, TypeTXT, records[1].TTL, records[1].Value, <<>>)>>

\* the TXT records appended for the records the ACME store returned
RECURSIVE acmeTXT(_, _, _)
acmeTXT(zone, records, i) ==
  IF i > Len(records) THEN <<>>
  ELSE <<RR(zone, TypeTXT, records[i].TTL, records[i].Value, <<>>)>>
       \o acmeTXT(zone, records, i + 1)

\* handleACMETXTChallenge: got is what ACMEStore.GetRecords(ToLower(zone))
\* returned, [err, records]; the result is [err, m]
handleACMETXTChallenge(zone, m, got) ==
  IF got.err THEN [err |-> TRUE, m |-> m]
  ELSE [err |-> FALSE, m |-> [m EXCEPT !.Answer = @ \o acmeTXT(zone, got.records, 1)]]

toQType(ttype) ==
  IF ttype = TypeA THEN "A" ELSE IF ttype = TypeNS THEN "NS"
  ELSE IF ttype = TypeCNAME THEN "CNAME" ELSE IF ttype = TypeSOA THEN "SOA"
  ELSE IF ttype = TypePTR THEN "PTR" ELSE IF ttype = TypeMX THEN "MX"
  ELSE IF ttype = TypeTXT THEN "TXT" ELSE IF ttype = TypeAAAA THEN "AAAA"
  ELSE ""

\* a variant of NewReply that leaves the authoritative flag unset
NewReplyNoAuthority(r) ==
  [Id |-> r.Id, Response |-> TRUE, Authoritative |-> FALSE,
   Question |-> IF Len(r.Question) > 0 THEN <<r.Question[1]>> ELSE <<>>,
   Answer |-> <<>>, Ns |-> <<>>, Extra |-> <<>>]

\* m := new(dns.Msg); m.SetReply(r); m.Authoritative = true; SetReply takes
\* the first question of the request only
NewReply(r) ==
  [Id |-> r.Id, Response |-> TRUE, Authoritative |-> TRUE,
   Question |-> IF Len(r.Question) > 0 THEN <<r.Question[1]>> ELSE <<>>,
   Answer |-> <<>>, Ns |-> <<>>, Extra |-> <<>>]

\* strings.HasPrefix(strings.ToLower(domain), acme.DNSChallengeString)
IsACME(domain) == HasPrefix(ToLower(domain), DNSChallengeString)

\* One pass of the loop of ServeDNS over r.Question: the reply after the
\* question, and whether the handler returns at once (abort).  record and
\* record6 are the values the custom-records resolvers returned, got the
\* answer of the ACME store.
answerQuestion(h, m, question, record, record6, got) ==
  LET domain == question.Name
      t == question.Qtype
  IN IF IsACME(domain)
     THEN IF t = TypeSOA THEN [abort |-> FALSE, m |-> handleSOA(h, domain, m)]
          ELSE IF t = TypeTXT
               THEN [abort |-> handleACMETXTChallenge(domain, m, got).err,
                     m |-> handleACMETXTChallenge(domain, m, got).m]
          ELSE IF t = TypeNS THEN [abort |-> FALSE, m |-> handleNS(h, domain, m)]
          ELSE IF t = TypeA
               THEN [abort |-> FALSE, m |-> handleACNAMEANY(h, domain, m, record)]
          ELSE IF t = TypeAAAA
               THEN [abort |-> FALSE, m |-> handleAAAACNAMEANY(h, domain, m, record6)]
          ELSE [abort |-> FALSE, m |-> m]
     ELSE IF t = TypeA \/ t = TypeCNAME \/ t = TypeANY
          THEN [abort |-> FALSE, m |-> handleACNAMEANY(h, domain, m, record)]
          ELSE IF t = TypeAAAA
               THEN [abort |-> FALSE, m |-> handleAAAACNAMEANY(h, domain, m, record6)]
          ELSE IF t = TypeMX THEN [abort |-> FALSE, m |-> handleMX(h, domain, m)]
          ELSE IF t = TypeNS THEN [abort |-> FALSE, m |-> handleNS(h, domain, m)]
          ELSE IF t = TypeSOA THEN [abort |-> FALSE, m |-> handleSOA(h, domain, m)]
          ELSE IF t = TypeTXT THEN [abort |-> FALSE, m |-> handleTXT(h, domain, m)]
          ELSE [abort |-> FALSE, m |-> m]

(***************************************************************************)
(* The textual dump of a message (dns.Msg.String), which handleInteraction *)
(* stores as raw request / raw response and scans in scan-everywhere mode. *)
(***************************************************************************)
\* dns.RR.String of an answer, authority or glue record; an AAAA record
\* whose address is an IPv4 one is printed in the mapped form
RRString(rr) ==
  rr.Name \o "\t" \o Itoa(rr.Ttl) \o "\tIN\t" \o TypeString(rr.Rrtype) \o "\t" \o
  (IF rr.Rrtype = TypeMX THEN Itoa(rr.Nums[1]) \o " " \o rr.Target
   ELSE IF rr.Rrtype = TypeSOA
        THEN rr.Target \o " " \o Itoa(rr.Nums[1]) \o " 0 0 " \o Itoa(rr.Nums[2])
             \o " " \o Itoa(rr.Nums[3])
   ELSE IF rr.Rrtype = TypeTXT THEN "\"" \o rr.Target \o "\""
   ELSE IF rr.Target = "<nil>" THEN ""
   ELSE IF rr.Rrtype = TypeAAAA /\ IsV4Text(rr.Target) THEN "::ffff:" \o rr.Target
   ELSE rr.Target)

\* dns.EDNS0.String of one option of an OPT record
RECURSIVE OptionsString(_, _)
OptionsString(opts, i) ==
  IF i > Len(opts) THEN ""
  ELSE (IF opts[i].Local
        THEN "\n; LOCAL OPT: " \o Itoa(opts[i].Code) \o ":0x" \o HexEncode(opts[i].Data)
        ELSE "\n; COOKIE: " \o HexEncode(opts[i].Data))
       \o OptionsString(opts, i + 1)

OPTString(rr) ==
  "\n;; OPT PSEUDOSECTION:\n; EDNS: version 0; flags:; udp: 4096"
  \o OptionsString(rr.Option, 1)

RECURSIVE QuestionsString(_, _)
QuestionsString(qs, i) ==
  IF i > Len(qs) THEN ""
  ELSE ";" \o qs[i].Name \o "\tIN\t " \o TypeString(qs[i].Qtype) \o "\n"
       \o QuestionsString(qs, i + 1)

\* the records of a section, one per line, OPT pseudo-records left out
RECURSIVE SectionString(_, _)
SectionString(rrs, i) ==
  IF i > Len(rrs) THEN ""
  ELSE (IF rrs[i].Rrtype = TypeOPT THEN "" ELSE RRString(rrs[i]) \o "\n")
       \o SectionString(rrs, i + 1)

\* dns.Msg.IsEdns0: the index of the OPT record of the Additional section, 0 if none
IsEdns0(msg) ==
  IF \E i \in 1..Len(msg.Extra) : msg.Extra[i].Rrtype = TypeOPT
  THEN CHOOSE i \in 1..Len(msg.Extra) :
         /\ msg.Extra[i].Rrtype = TypeOPT
         /\ \A j \in (i + 1)..Len(msg.Extra) : msg.Extra[j].Rrtype # TypeOPT
  ELSE 0

MsgString(msg) ==
  ";; opcode: QUERY, status: NOERROR, id: " \o Itoa(msg.Id) \o "\n;; flags:"
  \o (IF msg.Response THEN " qr" ELSE "")
  \o (IF msg.Authoritative THEN " aa" ELSE "")
  \o "; QUERY: " \o Itoa(Len(msg.Question))
  \o ", ANSWER: " \o Itoa(Len(msg.Answer))
  \o ", AUTHORITY: " \o Itoa(Len(msg.Ns))
  \o ", ADDITIONAL: " \o Itoa(Len(msg.Extra)) \o "\n"
  \o (IF IsEdns0(msg) # 0 THEN OPTString(msg.Extra[IsEdns0(msg)]) \o "\n" ELSE "")
  \o (IF Len(msg.Question) > 0
      THEN "\n;; QUESTION SECTION:\n" \o QuestionsString(msg.Question, 1) ELSE "")
  \o (IF Len(msg.Answer) > 0
      THEN "\n;; ANSWER SECTION:\n" \o SectionString(msg.Answer, 1) ELSE "")
  \o (IF Len(msg.Ns) > 0
      THEN "\n;; AUTHORITY SECTION:\n" \o SectionString(msg.Ns, 1) ELSE "")
  \o (IF Len(msg.Extra) > 0 /\ (IsEdns0(msg) = 0 \/ Len(msg.Extra) > 1)
      THEN "\n;; ADDITIONAL SECTION:\n" \o SectionString(msg.Extra, 1) ELSE "")

(***************************************************************************)
(* The correlation extractor of handleInteraction.                         *)
(***************************************************************************)
NoMatch == [uniqueID |-> "", fullID |-> ""]

\* Options.isCorrelationID: a string of the configured length made of
\* letters and digits
isCorrelationID(options, s) ==
  Len(s) = options.CorrelationIdLength /\ IsAlphanumeric(s)

\* Options.getCorrelationID: the storage key of an identifier, its first
\* CorrelationIdLength characters
getCorrelationID(options, s) ==
  IF Len(s) > options.CorrelationIdLength
  THEN SubSeq(s, 1, options.CorrelationIdLength)
  ELSE s

\* a variant of recordMatch in which the first match is kept
recordMatchFirstWins(acc, parts, i, sub) ==
  IF acc.uniqueID # "" THEN acc
  ELSE [uniqueID |-> sub, fullID |-> Join(SubSeq(parts, 1, i), ".")]

\* a variant of recordMatch in which fullID is the matching label alone
recordMatchLabelOnly(acc, parts, i, sub) ==
  [uniqueID |-> sub, fullID |-> parts[i]]

\* the assignments made when sub-token sub of label i (1-based) matches
recordMatch(acc, parts, i, sub) ==
  [uniqueID |-> sub, fullID |-> Join(SubSeq(parts, 1, i), ".")]

\* the inner loop of strict mode, over the sub-tokens of label i
RECURSIVE scanSubParts(_, _, _, _, _, _)
scanSubParts(options, parts, i, subParts, j, acc) ==
  IF j > Len(subParts) THEN acc
  ELSE scanSubParts(options, parts, i, subParts, j + 1,
         IF isCorrelationID(options, subParts[j])
         THEN recordMatch(acc, parts, i, subParts[j])
         ELSE acc)

\* the outer loop of strict mode, over the labels of the name
RECURSIVE scanLabels(_, _, _, _)
scanLabels(options, parts, i, acc) ==
  IF i > Len(parts) THEN acc
  ELSE scanLabels(options, parts, i + 1,
         scanSubParts(options, parts, i, splitSubdomainParts(parts[i]), 1, acc))

strictExtract(options, domain) == scanLabels(options, Split(domain, "."), 1, NoMatch)

\* stringsutil.SplitAny: cut at any of the separators, empty pieces dropped
SplitAny(s, seps) == SelectSeq(SplitOn(s, seps), LAMBDA piece : piece # "")

\* stringsutil.SlideWithLength: every window of l characters, or the whole
\* string when it is shorter than l
SlideWithLength(s, l) ==
  IF Len(s) < l THEN <<s>>
  ELSE [k \in 1..(Len(s) - l + 1) |-> SubSeq(s, k, k + l - 1)]

\* a variant of recordWindow in which fullID is lower-cased too
recordWindowFolded(acc, part) == [uniqueID |-> ToLower(part), fullID |-> ToLower(part)]

\* the assignments made when a window matches in scan-everywhere mode
recordWindow(acc, part) == [uniqueID |-> ToLower(part), fullID |-> part]

RECURSIVE scanWindows(_, _, _, _)
scanWindows(options, windows, j, acc) ==
  IF j > Len(windows) THEN acc
  ELSE scanWindows(options, windows, j + 1,
         IF isCorrelationID(options, ToLower(windows[j]))
         THEN recordWindow(acc, windows[j])
         ELSE acc)

RECURSIVE scanChunks(_, _, _, _)
scanChunks(options, chunks, i, acc) ==
  IF i > Len(chunks) THEN acc
  ELSE scanChunks(options, chunks, i + 1,
         scanWindows(options, SlideWithLength(chunks[i], options.CorrelationIdLength), 1, acc))

ScanSeparators == ".\n\t\"'"

scanExtract(options, requestMsg) ==
  scanChunks(options, SplitAny(requestMsg, ScanSeparators), 1, NoMatch)

\* a variant of foundDomainFrom without the break: the last configured
\* domain whose FQDN the name ends with
RECURSIVE foundDomainFromLast(_, _, _)
foundDomainFromLast(domains, i, domain) ==
  IF i > Len(domains) THEN ""
  ELSE LET rest == foundDomainFromLast(domains, i + 1, domain)
       IN IF rest # "" THEN rest
          ELSE IF HasSuffixI(domain, Fqdn(domains[i])) THEN domains[i]
          ELSE ""

\* the loop that sets foundDomain: the first configured domain whose FQDN
\* the name ends with, "" when there is none
RECURSIVE foundDomainFrom(_, _, _)
foundDomainFrom(domains, i, domain) ==
  IF i > Len(domains) THEN ""
  ELSE IF HasSuffixI(domain, Fqdn(domains[i])) THEN domains[i]
  ELSE foundDomainFrom(domains, i + 1, domain)

\* a variant of extractIDs that scans whether or not an apex matched
extractIDsAnyName(options, domain, requestMsg) ==
  IF options.ScanEverywhere THEN scanExtract(options, requestMsg)
  ELSE strictExtract(options, domain)

\* (uniqueID, fullID) as handleInteraction has them once the scan is over
extractIDs(options, domain, requestMsg) ==
  IF foundDomainFrom(options.Domains, 1, domain) = "" THEN NoMatch
  ELSE IF options.ScanEverywhere THEN scanExtract(options, requestMsg)
  ELSE strictExtract(options, domain)

(***************************************************************************)
(* The origin-IP resolver getMsgHost.                                      *)
(***************************************************************************)
\* net.SplitHostPort, host part: "host:port" or "[host]:port"
SplitHost(addr) ==
  IF HasPrefix(addr, "[")
  THEN IF FirstSep(addr, "]") = 0 THEN "" ELSE SubSeq(addr, 2, FirstSep(addr, "]") - 1)
  ELSE IF FirstSep(addr, ":") = 0 THEN "" ELSE SubSeq(addr, 1, FirstSep(addr, ":") - 1)

\* uint16(n) for n >= 0
Uint16Mod == 65536

Uint16(n) == n % Uint16Mod

\* The loop over options.RealIPFrom: "trusted", "untrusted", or "panic" when
\* an entry with a '/' does not parse, for then ParseCIDR hands back a nil
\* *IPNet and cidr.Contains dereferences it.
RECURSIVE trustOf(_, _, _)
trustOf(list, i, checkIP) ==
  IF i > Len(list) THEN "untrusted"
  ELSE IF ContainsChar(list[i], "/")
       THEN IF ~ParseCIDR(list[i]).ok THEN "panic"
            ELSE IF CIDRContains(ParseCIDR(list[i]), checkIP) THEN "trusted"
            ELSE trustOf(list, i + 1, checkIP)
  ELSE IF IPEqual(ParseIP(list[i]), checkIP) THEN "trusted"
  ELSE trustOf(list, i + 1, checkIP)

\* the options of the OPT records of the Additional section, in order
RECURSIVE ednsOptions(_, _)
ednsOptions(extra, i) ==
  IF i > Len(extra) THEN <<>>
  ELSE (IF extra[i].Rrtype = TypeOPT THEN extra[i].Option ELSE <<>>)
       \o ednsOptions(extra, i + 1)

\* the loop over r.Extra: the first LOCAL option with the configured code
\* decides; its data is the address unless it does not print as one
RECURSIVE originFrom(_, _, _, _)
originFrom(opts, i, code, host) ==
  IF i > Len(opts) THEN host
  ELSE IF opts[i].Local /\ opts[i].Code = Uint16(code)
       THEN IF ParseIP(IPString(opts[i].Data)) = NilIP THEN host
            ELSE IPString(opts[i].Data)
  ELSE originFrom(opts, i + 1, code, host)

\* getMsgHost: [panic, host]
getMsgHost(h, remoteAddr, r) ==
  LET host == SplitHost(remoteAddr)
      trust == trustOf(h.options.RealIPFrom, 1, ParseIP(host))
  IN IF h.options.OriginIPEDNSopt < 0 THEN [panic |-> FALSE, host |-> host]
     ELSE IF trust = "panic" THEN [panic |-> TRUE, host |-> ""]
     ELSE IF trust = "untrusted" THEN [panic |-> FALSE, host |-> host]
     ELSE [panic |-> FALSE,
           host |-> originFrom(ednsOptions(r.Extra, 1), 1, h.options.OriginIPEDNSopt, host)]

(***************************************************************************)
(* The interaction dispatcher handleInteraction.                           *)
(***************************************************************************)
NoInteraction ==
  [Protocol |-> "", UniqueID |-> "", FullId |-> "", QType |-> "",
   RawRequest |-> "", RawResponse |-> "", RemoteAddress |-> ""]

NoMsg ==
  [Id |-> 0, Response |-> FALSE, Authoritative |-> FALSE,
   Question |-> <<>>, Answer |-> <<>>, Ns |-> <<>>, Extra |-> <<>>]

\* One call that leaves the handler: the result callback ("OnResult"), a
\* storage write ("AddInteraction", "AddInteractionWithId", with the error it
\* returned) or the transport write ("WriteMsg").
Event(kind, w, key, interaction, msg, err) ==
  [kind |-> kind, w |-> w, key |-> key, interaction |-> interaction,
   msg |-> msg, err |-> err]

\* a variant of newInteraction that records the type of the last question
newInteractionLastQuestion(uniqueID, fullID, r, requestMsg, responseMsg, host) ==
  [Protocol |-> "dns", UniqueID |-> uniqueID, FullId |-> fullID,
   QType |-> toQType(r.Question[Len(r.Question)].Qtype),
   RawRequest |-> requestMsg, RawResponse |-> responseMsg, RemoteAddress |-> host]

\* the Interaction both branches build (the timestamp is left out)
newInteraction(uniqueID, fullID, r, requestMsg, responseMsg, host) ==
  [Protocol |-> "dns", UniqueID |-> uniqueID, FullId |-> fullID,
   QType |-> toQType(r.Question[1].Qtype),
   RawRequest |-> requestMsg, RawResponse |-> responseMsg, RemoteAddress |-> host]

\* the RootTLD branch once getMsgHost has returned host: the callback when
\* one is configured, then the storage write unless the encoding failed
rootTLDEvents(h, w, found, it, out) ==
  (IF h.options.OnResult THEN <<Event("OnResult", w, "", it, NoMsg, FALSE)>> ELSE <<>>)
  \o (IF out.enc1 THEN <<>>
      ELSE <<Event("AddInteractionWithId", w, found, it, NoMsg, out.st1)>>)

\* a variant of correlationEvents in which the correlation branch invokes
\* the callback too
correlationEventsWithCallback(h, w, ids, it, out) ==
  (IF h.options.OnResult THEN <<Event("OnResult", w, "", it, NoMsg, FALSE)>> ELSE <<>>)
  \o (IF out.enc2 THEN <<>>
      ELSE <<Event("AddInteraction", w, getCorrelationID(h.options, ids.uniqueID), it, NoMsg, out.st2)>>)

\* the correlation branch once getMsgHost has returned host
correlationEvents(h, w, ids, it, out) ==
  IF out.enc2 THEN <<>>
  ELSE <<Event("AddInteraction", w, getCorrelationID(h.options, ids.uniqueID), it, NoMsg, out.st2)>>

\* a variant of interactionContext in which the response is dumped before
\* the questions are answered
interactionContextEarlyDump(h, remoteAddr, r, m) ==
  [domain      |-> r.Question[1].Name,
   requestMsg  |-> MsgString(r),
   responseMsg |-> MsgString(NewReply(r)),
   found       |-> foundDomainFrom(h.options.Domains, 1, r.Question[1].Name),
   got         |-> getMsgHost(h, remoteAddr, r),
   ids         |-> extractIDs(h.options, r.Question[1].Name, MsgString(r))]

\* What handleInteraction computes before any call leaves it: the two
\* dumps, foundDomain, the identifiers of the scan, and what getMsgHost
\* returns when called ([panic, host]).
interactionContext(h, remoteAddr, r, m) ==
  [domain      |-> r.Question[1].Name,
   requestMsg  |-> MsgString(r),
   responseMsg |-> MsgString(m),
   found       |-> foundDomainFrom(h.options.Domains, 1, r.Question[1].Name),
   got         |-> getMsgHost(h, remoteAddr, r),
   ids         |-> extractIDs(h.options, r.Question[1].Name, MsgString(r))]

\* whether the RootTLD branch is entered
rootTLDFires(h, ctx) == h.options.RootTLD /\ ctx.found # ""

\* whether the correlation branch is entered
correlationFires(h, ctx) == ctx.ids.uniqueID # ""

\* The calls handleInteraction makes, in order, whether getMsgHost panicked,
\* and the identifiers extracted (none when the panic came before the scan).
\* out says which encodings (enc1, enc2) and storage writes (st1, st2) fail.
dispatch(h, w, r, ctx, out) ==
  LET first  == IF rootTLDFires(h, ctx) /\ ~ctx.got.panic
                THEN rootTLDEvents(h, w, ctx.found,
                       newInteraction(ctx.domain, ctx.domain, r, ctx.requestMsg,
                                      ctx.responseMsg, ctx.got.host),
                       out)
                ELSE <<>>
      second == IF correlationFires(h, ctx) /\ ~ctx.got.panic
                THEN correlationEvents(h, w, ctx.ids,
                       newInteraction(ctx.ids.uniqueID, ctx.ids.fullID, r, ctx.requestMsg,
                                      ctx.responseMsg, ctx.got.host),
                       out)
                ELSE <<>>
  IN IF rootTLDFires(h, ctx) /\ ctx.got.panic
     THEN [panic |-> TRUE, events |-> <<>>, ids |-> NoMatch]
     ELSE [panic  |-> correlationFires(h, ctx) /\ ctx.got.panic,
           events |-> first \o second,
           ids    |-> ctx.ids]

\* handleInteraction(domain, w, r, m) in handler w with transport peer remoteAddr
handleInteraction(h, w, remoteAddr, r, m, out) ==
  dispatch(h, w, r, interactionContext(h, remoteAddr, r, m), out)

\* the failures that can occur in a call of handleInteraction: an encoding
\* or a storage write fails only where it is reached
Outcomes(h, ctx) ==
  {out \in [enc1 : BOOLEAN, st1 : BOOLEAN, enc2 : BOOLEAN, st2 : BOOLEAN] :
     /\ (out.enc1 \/ out.st1 \/ out.enc2 \/ out.st2) => ~ctx.got.panic
     /\ (out.enc1 \/ out.st1) => rootTLDFires(h, ctx)
     /\ (out.enc2 \/ out.st2) => correlationFires(h, ctx)
     /\ ~(out.enc1 /\ out.st1)
     /\ ~(out.enc2 /\ out.st2)}

NoOutcome == [enc1 |-> FALSE, st1 |-> FALSE, enc2 |-> FALSE, st2 |-> FALSE]

(***************************************************************************)
(* The inputs: configurations and messages.                                *)
(***************************************************************************)
\* length of a correlation identifier (Options.CorrelationIdLength)
IdLength == 4

ID1 == Repeat("c", IdLength)

ID2 == Repeat("d", IdLength)

IDU == Repeat("C", IdLength)

DefaultIP == "192.0.2.10"

DefaultIPv6 == "2001:db8::1"

DefaultTTL == 60

DomainChoices == {<<"oob.io">>, <<"oob.io", "alt.io">>, <<"sub.oob.io", "oob.io">>}

\* no custom records beyond the defaults, or inline overlays plus a file
RecordChoices ==
  {[DnsSubdomainRecords |-> <<>>, CustomRecords |-> "",
    CustomRecordsFile |-> [ok |-> FALSE, ipv4 |-> <<>>, ipv6 |-> <<>>]],
   [DnsSubdomainRecords |-> <<"acme=198.51.100.7", "Challenge=::1", "x=bad", "noequals">>,
    CustomRecords |-> "records.yaml",
    CustomRecordsFile |-> [ok |-> TRUE,
                           ipv4 |-> <<<<"WWW", "198.51.100.8">>, <<"broken", "not-an-ip">>>>,
                           ipv6 |-> <<<<"www", "::1">>, <<"aws", "198.51.100.8">>>>]]}

MkOptions(domains, rootTLD, scan, onResult, rec, ednsOpt, realIPFrom) ==
  [Domains |-> domains, IPAddress |-> DefaultIP, IPv6Address |-> DefaultIPv6,
   DnsTTL |-> DefaultTTL, RootTLD |-> rootTLD, ScanEverywhere |-> scan,
   OnResult |-> onResult, CorrelationIdLength |-> IdLength,
   DnsSubdomainRecords |-> rec.DnsSubdomainRecords,
   CustomRecords |-> rec.CustomRecords, CustomRecordsFile |-> rec.CustomRecordsFile,
   OriginIPEDNSopt |-> ednsOpt, RealIPFrom |-> realIPFrom]

Question(name, qtype) == [Name |-> name, Qtype |-> qtype]

MkMsg(id, questions, extra) ==
  [Id |-> id, Response |-> FALSE, Authoritative |-> FALSE,
   Question |-> questions, Answer |-> <<>>, Ns |-> <<>>, Extra |-> extra]

QNames ==
  {ID1 \o ".oob.io.",
   "foo.bar." \o ID1 \o ".oob.io.",
   ID1 \o "." \o ID2 \o ".oob.io.",
   ID1 \o "-" \o ID2 \o ".oob.io.",
   ID1 \o ".www.oob.io.",
   IDU \o ".oob.io.",
   ID1 \o ".OOB.IO.",
   ID1 \o ".sub.oob.io.",
   ID1 \o ".alt.io.",
   ID1 \o ".alien.org.",
   "aws.oob.io.",
   "www.oob.io.",
   "broken.oob.io.",
   "oob.io.",
   "alt.io.",
   "0a000001-deadbeef.oob.io.",
   "-acme.oob.io.",
   "_acme-challenge.oob.io.",
   "_ACME-Challenge." \o ID1 \o ".oob.io."}

QTypes == {TypeA, TypeNS, TypeCNAME, TypeSOA, TypePTR, TypeMX, TypeTXT, TypeAAAA, TypeANY}

\* messages with one question, with none, and a few with two
Messages ==
  {MkMsg(4660, <<Question(n, t)>>, <<>>) : n \in QNames, t \in QTypes}
  \cup {MkMsg(48879, <<Question(n, t)>>, <<>>) :
          n \in {ID1 \o ".oob.io.", ID1 \o ".alien.org.", "_acme-challenge.oob.io."},
          t \in {TypeA, TypeTXT}}
  \cup {MkMsg(4660, <<>>, <<>>)}
  \cup {MkMsg(4660, <<Question(ID1 \o ".oob.io.", TypeA), Question(ID2 \o ".alt.io.", TypeAAAA)>>, <<>>),
        MkMsg(4660, <<Question("www.oob.io.", TypeMX), Question(ID1 \o ".oob.io.", TypeA)>>, <<>>),
        MkMsg(4660, <<Question("_acme-challenge.oob.io.", TypeTXT), Question(ID1 \o ".oob.io.", TypeA)>>, <<>>),
        MkMsg(4660, <<Question(ID1 \o ".oob.io.", TypeA), Question("_acme-challenge.oob.io.", TypeTXT)>>, <<>>)}

\* what ACMEStore.GetRecords can return
AcmeOutcomes ==
  {[err |-> TRUE, records |-> <<>>],
   [err |-> FALSE, records |-> <<>>],
   [err |-> FALSE, records |-> <<[Value |-> "token123", TTL |-> 30]>>],
   [err |-> FALSE, records |-> <<[Value |-> "token123", TTL |-> 30], [Value |-> "token456", TTL |-> 45]>>]}

NoAcme == [err |-> FALSE, records |-> <<>>]

OPT(options) == [Name |-> ".", Rrtype |-> TypeOPT, Ttl |-> 0, Target |-> "", Nums |-> <<>>,
                 Option |-> options]

LocalOpt(code, data) == [Local |-> TRUE, Code |-> code, Data |-> data]

\* an option that is not an EDNS0_LOCAL: a COOKIE (option code 10)
CookieOpt(data) == [Local |-> FALSE, Code |-> 10, Data |-> data]

OriginOptCode == 5

ExtraChoices ==
  {<<>>,
   <<OPT(<<LocalOpt(OriginOptCode, <<198, 51, 100, 99>>)>>)>>,
   <<OPT(<<LocalOpt(OriginOptCode + 1, <<198, 51, 100, 99>>)>>)>>,
   <<OPT(<<LocalOpt(OriginOptCode, <<198, 51, 100>>)>>)>>,
   <<OPT(<<CookieOpt(<<1, 2>>), LocalOpt(OriginOptCode, <<198, 51, 100, 99>>)>>)>>}

EdnsOptChoices == {-1, OriginOptCode, Uint16Mod + OriginOptCode}

RealIPFromChoices ==
  {<<>>, <<"10.0.0.1">>, <<"10.0.0.0/8">>, <<"bad">>, <<"10.0.0.0/33">>,
   <<"192.0.2.1", "10.0.0.0/08">>, <<"bad", "10.0.0.1">>}

RemoteChoices == {"10.0.0.1:5353", "10.9.9.9:5353", "203.0.113.5:53", "[fe80::1%eth0]:5353"}

OriginMessages ==
  {MkMsg(4660, <<Question(n, TypeA)>>, e) :
     n \in {ID1 \o ".oob.io.", "www.oob.io.", ID1 \o ".alien.org."}, e \in ExtraChoices}

(***************************************************************************)
(* The state machine.                                                      *)
(***************************************************************************)
VARIABLES
  h,        \* the DNSServer built by NewDNSServer
  stats,    \* options.Stats.Dns
  handlers, \* one ServeDNS invocation per message in flight
  events,   \* the calls made to the callback, the storage and the transport
  crashed   \* the process died of a panic

vars == <<h, stats, handlers, events, crashed>>

Workers == DOMAIN handlers

\* a message in flight, not yet handed to ServeDNS; acme is the log of the
\* calls of ACMEStore.GetRecords: the zone asked for and what came back;
\* calls are the calls of handleInteraction that are still to be made
NewHandler(remoteAddr, r) ==
  [pc |-> "recv", remoteAddr |-> remoteAddr, r |-> r, m |-> NoMsg, qi |-> 1,
   isDNSChallenge |-> FALSE, acmeErr |-> FALSE, acme |-> <<>>, out |-> NoOutcome,
   ids |-> NoMatch, calls |-> <<>>]

InitWith(optionSet, remotes, messages, n) ==
  /\ h \in {NewDNSServer(o) : o \in optionSet}
  /\ stats = 0
  /\ handlers \in [1..n -> {NewHandler(a, r) : a \in remotes, r \in messages}]
  /\ events = <<>>
  /\ crashed = FALSE

DefaultRecords == CHOOSE rec \in RecordChoices : rec.CustomRecords = ""

\* every apex list with every mode and a callback, the custom records and
\* the absence of a callback with some of them
OptionChoices ==
  {MkOptions(d, root, scan, TRUE, DefaultRecords, -1, <<>>) :
     d \in DomainChoices, root \in BOOLEAN, scan \in BOOLEAN}
  \cup {MkOptions(<<"oob.io">>, root, FALSE, TRUE, rec, -1, <<>>) :
          root \in BOOLEAN, rec \in RecordChoices}
  \cup {MkOptions(<<"oob.io">>, root, scan, FALSE, DefaultRecords, -1, <<>>) :
          root \in BOOLEAN, scan \in BOOLEAN}

Init == InitWith(OptionChoices, {"10.0.0.1:5353"}, Messages, 1)

InitOrigin ==
  InitWith({MkOptions(<<"oob.io">>, root, FALSE, TRUE, rec, opt, from) :
              root \in BOOLEAN,
              rec \in {x \in RecordChoices : x.CustomRecords = ""},
              opt \in EdnsOptChoices, from \in RealIPFromChoices},
           RemoteChoices, OriginMessages, 1)

\* number of ServeDNS invocations in flight at once
NumWorkers == 2

\* one configuration with RootTLD off and one with it on, both with a callback
ConcurrentOptions ==
  {MkOptions(<<"oob.io">>, root, FALSE, TRUE, DefaultRecords, -1, <<>>) : root \in BOOLEAN}

\* a message without question, one with an identifier and one with two
\* questions
ConcurrentMessages ==
  {MkMsg(4660, <<>>, <<>>),
   MkMsg(4660, <<Question(ID1 \o ".oob.io.", TypeA)>>, <<>>),
   MkMsg(4660, <<Question("www.oob.io.", TypeMX), Question(ID1 \o ".oob.io.", TypeA)>>, <<>>)}

InitConcurrent ==
  InitWith(ConcurrentOptions, {"10.0.0.1:5353"}, ConcurrentMessages, NumWorkers)

\* a variant of AddUint64 that loses the update when another invocation has
\* already counted: the write of a stale read
AddUint64Lost(val, delta) == IF val = 0 THEN delta ELSE val

\* atomic.AddUint64(&val, delta): read, add and write in one step (the
\* counts of the model stay far below the width of the counter)
AddUint64(val, delta) == val + delta

\* ServeDNS up to the loop: the counter, the reply, the bail-out
Receive(w) ==
  /\ ~crashed
  /\ handlers[w].pc = "recv"
  /\ stats' = AddUint64(stats, 1)
  /\ handlers' = [handlers EXCEPT
       ![w].m = NewReply(handlers[w].r),
       ![w].pc = IF Len(handlers[w].r.Question) = 0 THEN "done" ELSE "answer"]
  /\ UNCHANGED <<h, events, crashed>>

\* a variant of afterQuestion in which an ACME store error does not return
afterQuestionIgnoreAbort(hd, abort, challenge) ==
  IF hd.qi < Len(hd.r.Question) THEN "answer"
  ELSE IF challenge THEN "write"
  ELSE "interact"

\* a variant of afterQuestion in which handleInteraction is called for ACME
\* messages too
afterQuestionAlwaysInteract(hd, abort, challenge) ==
  IF abort THEN "done"
  ELSE IF hd.qi < Len(hd.r.Question) THEN "answer"
  ELSE "interact"

\* where ServeDNS goes after the pass over question qi
afterQuestion(hd, abort, challenge) ==
  IF abort THEN "done"
  ELSE IF hd.qi < Len(hd.r.Question) THEN "answer"
  ELSE IF challenge THEN "write"
  ELSE "interact"

\* one pass of the loop over r.Question
AnswerQuestion(w) ==
  LET hd == handlers[w]
      q  == hd.r.Question[hd.qi]
  IN /\ ~crashed
     /\ hd.pc = "answer"
     /\ \E record \in checkCustomResponse(h.customRecords, q.Name),
           record6 \in checkCustomAAAAResponse(h.customRecords, q.Name),
           got \in AcmeOutcomes :
          LET usesV4   == q.Qtype = TypeA \/ (~IsACME(q.Name) /\ q.Qtype \in {TypeCNAME, TypeANY})
              usesV6   == q.Qtype = TypeAAAA
              usesAcme == IsACME(q.Name) /\ q.Qtype = TypeTXT
              res == answerQuestion(h, hd.m, q, record, record6, got)
              challenge == hd.isDNSChallenge \/ IsACME(q.Name)
          IN /\ usesV4 \/ record = CHOOSE v \in checkCustomResponse(h.customRecords, q.Name) : TRUE
             /\ usesV6 \/ record6 = CHOOSE v \in checkCustomAAAAResponse(h.customRecords, q.Name) : TRUE
             /\ usesAcme \/ got = NoAcme
             /\ handlers' = [handlers EXCEPT
                  ![w].m = res.m,
                  ![w].qi = hd.qi + 1,
                  ![w].isDNSChallenge = challenge,
                  ![w].acmeErr = res.abort,
                  ![w].acme = IF usesAcme
                              THEN Append(@, [zone |-> ToLower(q.Name), err |-> got.err,
                                              records |-> got.records])
                              ELSE @,
                  ![w].pc = afterQuestion(hd, res.abort, challenge)]
     /\ UNCHANGED <<h, stats, events, crashed>>

\* a variant of afterInteraction in which a failed encoding or storage write
\* makes ServeDNS return without writing
afterInteractionFailFast(res, out) ==
  IF res.panic THEN "panic"
  ELSE IF out.enc1 \/ out.st1 \/ out.enc2 \/ out.st2 THEN "done"
  ELSE IF Len(res.events) > 0 THEN "calls"
  ELSE "write"

\* where ServeDNS goes once handleInteraction has done its work up to its
\* first call: to that call, or on to w.WriteMsg when there is none, whatever
\* failed inside, unless getMsgHost panicked
afterInteraction(res, out) ==
  IF res.panic THEN "panic"
  ELSE IF Len(res.events) > 0 THEN "calls"
  ELSE "write"

\* uniqueID and fullID while the calls in pending are still to be made: the
\* scan for identifiers comes after the calls of the RootTLD branch
idsBefore(pending, ids) ==
  IF \E i \in 1..Len(pending) : pending[i].kind \in {"OnResult", "AddInteractionWithId"}
  THEN NoMatch
  ELSE ids

\* handleInteraction for the first question, up to its first call to the
\* callback or the storage.  out, which encodings and storage writes of the
\* invocation fail, is drawn here.
HandleInteraction(w) ==
  LET hd == handlers[w]
  IN /\ ~crashed
     /\ hd.pc = "interact"
     /\ LET ctx == interactionContext(h, hd.remoteAddr, hd.r, hd.m)
        IN \E out \in Outcomes(h, ctx) :
          LET res == dispatch(h, w, hd.r, ctx, out)
          IN /\ crashed' = res.panic
             /\ handlers' = [handlers EXCEPT
                  ![w].out = out,
                  ![w].calls = res.events,
                  ![w].ids = idsBefore(res.events, res.ids),
                  ![w].pc = afterInteraction(res, out)]
     /\ UNCHANGED <<h, stats, events>>

\* one call of handleInteraction to the callback or the storage, and what
\* follows it up to the next call or the return; other invocations run
\* between two calls
OutgoingCall(w) ==
  LET hd   == handlers[w]
      rest == Tail(hd.calls)
  IN /\ ~crashed
     /\ hd.pc = "calls"
     /\ events' = Append(events, Head(hd.calls))
     /\ handlers' = [handlers EXCEPT
          ![w].calls = rest,
          ![w].ids = idsBefore(rest, extractIDs(h.options, hd.r.Question[1].Name,
                                                MsgString(hd.r))),
          ![w].pc = IF Len(rest) > 0 THEN "calls" ELSE "write"]
     /\ UNCHANGED <<h, stats, crashed>>

\* w.WriteMsg(m)
WriteMsg(w) ==
  /\ ~crashed
  /\ handlers[w].pc = "write"
  /\ events' = Append(events, Event("WriteMsg", w, "", NoInteraction, handlers[w].m, FALSE))
  /\ handlers' = [handlers EXCEPT ![w].pc = "done"]
  /\ UNCHANGED <<h, stats, crashed>>

Next ==
  \/ \E w \in Workers : Receive(w)
  \/ \E w \in Workers : AnswerQuestion(w)
  \/ \E w \in Workers : HandleInteraction(w)
  \/ \E w \in Workers : OutgoingCall(w)
  \/ \E w \in Workers : WriteMsg(w)

Spec == Init /\ [][Next]_vars

SpecOrigin == InitOrigin /\ [][Next]_vars

SpecConcurrent == InitConcurrent /\ [][Next]_vars
(***************************************************************************)
(* Vocabulary of the properties.                                           *)
(***************************************************************************)
\* the questions of the request that call k of the log was made for
Asked(k) == handlers[events[k].w].r.Question

InteractionKinds == {"OnResult", "AddInteraction", "AddInteractionWithId"}

\* the calls of the given kinds made by handler w, in order
EventsOf(w, kinds) == SelectSeq(events, LAMBDA e : e.w = w /\ e.kind \in kinds)

\* the name ends, whatever the case, with the FQDN of a configured apex
UnderApex(o, name) == \E i \in 1..Len(o.Domains) : HasSuffixI(name, Fqdn(o.Domains[i]))

\* handler w has returned from handleInteraction
Dispatched(w) ==
  /\ handlers[w].pc \in {"write", "done"}
  /\ Len(handlers[w].r.Question) > 0
  /\ ~handlers[w].isDNSChallenge

\* the concatenation of a sequence of sequences
RECURSIVE Concat(_)
Concat(ss) == IF Len(ss) = 0 THEN <<>> ELSE Head(ss) \o Concat(Tail(ss))

\* every sub-token of every label of the name, in scan order, with the
\* index of its label
StrictTokens(name) ==
  LET parts == Split(name, ".")
  IN Concat([i \in 1..Len(parts) |->
               LET sp == splitSubdomainParts(parts[i])
               IN [j \in 1..Len(sp) |-> [label |-> i, token |-> sp[j]]]])

\* those of them that are correlation identifiers as they stand
StrictHits(o, name) ==
  SelectSeq(StrictTokens(name), LAMBDA t : isCorrelationID(o, t.token))

\* every window of every chunk of the dump, in scan order
ScanWindows(o, text) ==
  LET chunks == SplitAny(text, ScanSeparators)
  IN Concat([i \in 1..Len(chunks) |-> SlideWithLength(chunks[i], o.CorrelationIdLength)])

\* those of them that are correlation identifiers once lower-cased
ScanHits(o, text) ==
  SelectSeq(ScanWindows(o, text), LAMBDA win : isCorrelationID(o, ToLower(win)))

(***************************************************************************)
(* C1: every response written to the transport is authoritative and        *)
(* carries the transaction ID of the request it answers.                   *)
(***************************************************************************)
C1_AuthoritativeSameId ==
  \A k \in 1..Len(events) :
    events[k].kind = "WriteMsg" =>
      /\ events[k].msg.Authoritative
      /\ events[k].msg.Id = handlers[events[k].w].r.Id

\* a reply to a query in the ACME subtree whose ID is not the usual one
C1_Witness ==
  \E k \in 1..Len(events) :
    /\ events[k].kind = "WriteMsg"
    /\ events[k].msg.Id = 48879
    /\ IsACME(handlers[events[k].w].r.Question[1].Name)

(***************************************************************************)
(* C2: a storage write or a callback is made only if an identifier was     *)
(* extracted or RootTLD is on and the first name ends with an apex; a name *)
(* under no configured apex never produces an interaction.                 *)
(***************************************************************************)
C2_OnlyWithIdOrRootTLD ==
  \A k \in 1..Len(events) :
    events[k].kind \in InteractionKinds =>
      LET hd == handlers[events[k].w]
      IN /\ UnderApex(h.options, hd.r.Question[1].Name)
         /\ \/ hd.ids.uniqueID # ""
            \/ h.options.RootTLD

\* RootTLD alone produced a write: no identifier in the name
C2_Witness ==
  \E k \in 1..Len(events) :
    /\ events[k].kind = "AddInteractionWithId"
    /\ handlers[events[k].w].ids.uniqueID = ""
    /\ handlers[events[k].w].pc = "done"

(***************************************************************************)
(* C3 as stated: at most one AddInteraction per message, and the           *)
(* identifier emitted is that of the first match.                          *)
(***************************************************************************)
C3_FirstMatchWins ==
  \A w \in Workers :
    LET adds  == EventsOf(w, {"AddInteraction"})
        hits  == StrictHits(h.options, handlers[w].r.Question[1].Name)
        whits == ScanHits(h.options, MsgString(handlers[w].r))
    IN /\ Len(adds) <= 1
       /\ Len(adds) = 1 =>
            adds[1].interaction.UniqueID =
              IF h.options.ScanEverywhere THEN ToLower(whits[1]) ELSE hits[1].token

(***************************************************************************)
(* C3 amended: at most one AddInteraction per message, and the identifier  *)
(* emitted is that of the last match in scan order.                        *)
(***************************************************************************)
C3_LastMatchWins ==
  \A w \in Workers :
    LET adds  == EventsOf(w, {"AddInteraction"})
        hits  == StrictHits(h.options, handlers[w].r.Question[1].Name)
        whits == ScanHits(h.options, MsgString(handlers[w].r))
    IN /\ Len(adds) <= 1
       /\ Len(adds) = 1 =>
            adds[1].interaction.UniqueID =
              IF h.options.ScanEverywhere THEN ToLower(whits[Len(whits)])
              ELSE hits[Len(hits)].token

\* a name with matches in two labels was handled in strict mode and one
\* interaction was stored
C3_Witness ==
  \E w \in Workers :
    /\ ~h.options.ScanEverywhere
    /\ handlers[w].pc = "done"
    /\ Len(EventsOf(w, {"AddInteraction"})) = 1
    /\ LET hits == StrictHits(h.options, handlers[w].r.Question[1].Name)
       IN Len(hits) > 1 /\ hits[1].token # hits[Len(hits)].token

(***************************************************************************)
(* C4 as stated: the custom records never override the ACME subtree: the   *)
(* address answered to an A or AAAA question whose lower-cased name starts *)
(* with "_acme-challenge." is the default IP of that family.               *)
(***************************************************************************)
C4_AcmeAnswersDefaultIP ==
  \A k \in 1..Len(events) :
    events[k].kind = "WriteMsg" =>
      \A i \in 1..Len(Asked(k)) :
        LET q == Asked(k)[i]
        IN (IsACME(q.Name) /\ q.Qtype \in {TypeA, TypeAAAA}) =>
             \A j \in 1..Len(events[k].msg.Answer) :
               LET rr == events[k].msg.Answer[j]
               IN (rr.Name = q.Name /\ rr.Rrtype = q.Qtype) =>
                    rr.Target = IF q.Qtype = TypeA THEN h.options.IPAddress
                                ELSE h.options.IPv6Address

\* the transport peer is an address and an entry of the list, an address or
\* a network, is or holds that address
PeerListed(list, host) ==
  /\ ParseIP(host) # NilIP
  /\ \E i \in 1..Len(list) :
       IF ContainsChar(list[i], "/")
       THEN ParseCIDR(list[i]).ok /\ CIDRContains(ParseCIDR(list[i]), ParseIP(host))
       ELSE ParseIP(list[i]) # NilIP /\ IPEqual(ParseIP(list[i]), ParseIP(host))

(***************************************************************************)
(* C5 as stated: the remote address recorded in an interaction differs     *)
(* from the host of the transport peer only if OriginIPEDNSopt is not      *)
(* negative, the peer matches an entry of RealIPFrom and the request has   *)
(* an EDNS0 LOCAL option whose code equals OriginIPEDNSopt.                *)
(***************************************************************************)
C5_OriginOnlyWhenTrusted ==
  \A k \in 1..Len(events) :
    events[k].kind \in InteractionKinds =>
      LET hd   == handlers[events[k].w]
          host == SplitHost(hd.remoteAddr)
          opts == ednsOptions(hd.r.Extra, 1)
      IN events[k].interaction.RemoteAddress # host =>
           /\ h.options.OriginIPEDNSopt >= 0
           /\ PeerListed(h.options.RealIPFrom, host)
           /\ \E i \in 1..Len(opts) :
                opts[i].Local /\ opts[i].Code = h.options.OriginIPEDNSopt

\* the question adds an authority block to the reply
HasAuthorityBlock(q) ==
  \/ q.Qtype \in {TypeA, TypeAAAA}
  \/ q.Qtype \in {TypeCNAME, TypeANY} /\ ~IsACME(q.Name)

\* the configured apex whose name servers the claim expects for a name:
\* the longest apex the name ends with
MostSpecificApex(o, name) ==
  CHOOSE d \in {o.Domains[i] : i \in 1..Len(o.Domains)} :
    /\ HasSuffixI(name, Fqdn(d))
    /\ \A i \in 1..Len(o.Domains) :
         HasSuffixI(name, Fqdn(o.Domains[i])) => Len(o.Domains[i]) <= Len(d)

\* the apex whose name servers are served for a name: the name itself when
\* it is the FQDN of a configured apex, the first configured apex otherwise
ExactOrPrimaryApex(o, name) ==
  IF \E i \in 1..Len(o.Domains) : name = Fqdn(o.Domains[i]) THEN name
  ELSE Fqdn(o.Domains[1])

\* the NS pair of an apex (given as an FQDN) for an owner name, and its glue
NsPairOf(o, name, apex) ==
  <<RR(name, TypeNS, o.DnsTTL, "ns1." \o apex, <<>>),
    RR(name, TypeNS, o.DnsTTL, "ns2." \o apex, <<>>)>>

GluePairOf(o, apex) ==
  <<RR("ns1." \o apex, TypeA, o.DnsTTL, o.IPAddress, <<>>),
    RR("ns2." \o apex, TypeA, o.DnsTTL, o.IPAddress, <<>>)>>

(***************************************************************************)
(* C6 as stated: the reply to an A, AAAA, ANY or CNAME question under a    *)
(* configured apex has in its Authority section exactly the NS pair of the *)
(* most specific apex the name falls under, and in its Additional section  *)
(* one glue A record per name server with the default v4 IP.               *)
(***************************************************************************)
C6_MostSpecificApex ==
  \A k \in 1..Len(events) :
    LET msg == events[k].msg
    IN (/\ events[k].kind = "WriteMsg"
        /\ Len(Asked(k)) = 1
        /\ Asked(k)[1].Qtype \in {TypeA, TypeAAAA, TypeANY, TypeCNAME}
        /\ UnderApex(h.options, Asked(k)[1].Name)) =>
         LET apex == Fqdn(MostSpecificApex(h.options, Asked(k)[1].Name))
         IN /\ msg.Ns = NsPairOf(h.options, Asked(k)[1].Name, apex)
            /\ msg.Extra = GluePairOf(h.options, apex)

(***************************************************************************)
(* C6 amended: every A or AAAA question, and every CNAME or ANY question   *)
(* outside the ACME subtree, adds to the Authority section the NS pair of  *)
(* the question name itself when that name is exactly the FQDN of a        *)
(* configured apex and of the first configured apex otherwise, and to the  *)
(* Additional section one glue A record per name server with the default   *)
(* v4 IP; no other question adds to either section.                        *)
(***************************************************************************)
C6_ExactOrPrimaryApex ==
  \A k \in 1..Len(events) :
    LET msg == events[k].msg
        qs  == Asked(k)
    IN events[k].kind = "WriteMsg" =>
         /\ msg.Ns = Concat([i \in 1..Len(qs) |->
                       IF HasAuthorityBlock(qs[i])
                       THEN NsPairOf(h.options, qs[i].Name,
                                     ExactOrPrimaryApex(h.options, qs[i].Name))
                       ELSE <<>>])
         /\ msg.Extra = Concat([i \in 1..Len(qs) |->
                          IF HasAuthorityBlock(qs[i])
                          THEN GluePairOf(h.options, ExactOrPrimaryApex(h.options, qs[i].Name))
                          ELSE <<>>])

\* a subdomain of the second apex was answered with the name servers of the
\* first, and the second apex itself with its own
C6_Witness ==
  /\ Len(h.options.Domains) = 2
  /\ h.options.Domains[2] = "alt.io"
  /\ \E k \in 1..Len(events) :
       /\ events[k].kind = "WriteMsg"
       /\ Len(Asked(k)) = 1
       /\ Asked(k)[1].Qtype \in {TypeA, TypeAAAA, TypeANY, TypeCNAME}
       /\ HasSuffix(Asked(k)[1].Name, ".alt.io.")
       /\ Len(events[k].msg.Ns) = 2
       /\ events[k].msg.Ns[1].Target = "ns1.oob.io."

(***************************************************************************)
(* C7: in strict mode, once handleInteraction has scanned a name under an  *)
(* apex, the identifiers are those of the last match in scan order, that   *)
(* is the last matching sub-token of the matching label of greatest index  *)
(* i, and fullID is labels[0..i] joined by "."; none when nothing matches. *)
(***************************************************************************)
C7_DeepestLabelWins ==
  \A w \in Workers :
    (/\ Dispatched(w)
     /\ ~h.options.ScanEverywhere
     /\ UnderApex(h.options, handlers[w].r.Question[1].Name)) =>
      LET name == handlers[w].r.Question[1].Name
          hits == StrictHits(h.options, name)
          last == hits[Len(hits)]
      IN IF Len(hits) = 0 THEN handlers[w].ids = NoMatch
         ELSE /\ \A n \in 1..Len(hits) : hits[n].label <= last.label
              /\ handlers[w].ids.uniqueID = last.token
              /\ handlers[w].ids.fullID = Join(SubSeq(Split(name, "."), 1, last.label), ".")

\* foo.bar.<id>.<apex> was scanned in strict mode and stored
C7_Witness ==
  \E w \in Workers :
    /\ Dispatched(w)
    /\ ~h.options.ScanEverywhere
    /\ handlers[w].r.Question[1].Name = "foo.bar." \o ID1 \o ".oob.io."
    /\ handlers[w].ids = [uniqueID |-> ID1, fullID |-> "foo.bar." \o ID1]
    /\ \E k \in 1..Len(events) :
         /\ events[k].kind = "AddInteraction"
         /\ events[k].interaction.FullId = "foo.bar." \o ID1

\* the sub-tokens of the name that are identifiers once lower-cased
StrictHitsFolded(o, name) ==
  SelectSeq(StrictTokens(name), LAMBDA t : isCorrelationID(o, ToLower(t.token)))

(***************************************************************************)
(* C8 as stated: in strict mode a sub-token is matched when its lower-case *)
(* form is an identifier, and the unique ID emitted is the lower-cased     *)
(* sub-token.                                                              *)
(***************************************************************************)
C8_StrictModeFoldsCase ==
  \A w \in Workers :
    (/\ Dispatched(w)
     /\ ~h.options.ScanEverywhere
     /\ UnderApex(h.options, handlers[w].r.Question[1].Name)) =>
      LET hits == StrictHitsFolded(h.options, handlers[w].r.Question[1].Name)
      IN Len(hits) > 0 => handlers[w].ids.uniqueID = ToLower(hits[Len(hits)].token)

AllKinds == InteractionKinds \cup {"WriteMsg"}

(***************************************************************************)
(* C9 as stated: when the ACME store fails for a TXT question, the handler *)
(* still writes a response.                                                *)
(***************************************************************************)
C9_ResponseStillWritten ==
  \A w \in Workers :
    (handlers[w].acmeErr /\ handlers[w].pc = "done") =>
      Len(EventsOf(w, {"WriteMsg"})) = 1

(***************************************************************************)
(* C9 amended: when the ACME store fails for a TXT question, the handler   *)
(* returns at once: no response is written, the records produced for the   *)
(* earlier questions are dropped with it, and no interaction is emitted.   *)
(***************************************************************************)
C9_StoreErrorAbortsResponse ==
  \A w \in Workers :
    handlers[w].acmeErr =>
      /\ handlers[w].pc = "done"
      /\ Len(EventsOf(w, AllKinds)) = 0

\* the store failed on the second question, after the first had been answered
C9_Witness ==
  \E w \in Workers :
    /\ handlers[w].acmeErr
    /\ handlers[w].pc = "done"
    /\ Len(handlers[w].m.Answer) > 0
    /\ Len(EventsOf(w, AllKinds)) = 0

\* some encoding or storage write of the call failed
Failed(out) == out.enc1 \/ out.st1 \/ out.enc2 \/ out.st2

(***************************************************************************)
(* C10: a failed encoding or storage write never prevents the response:    *)
(* a handler in which one failed goes on to the write, a handler of a      *)
(* non-ACME message with a question that has returned wrote exactly one    *)
(* response, and a failure in the RootTLD branch does not keep the         *)
(* correlation branch from storing the identifier it extracted.            *)
(***************************************************************************)
C10_FailuresNeverBlockResponse ==
  \A w \in Workers :
    /\ Failed(handlers[w].out) => handlers[w].pc \in {"calls", "write", "done"}
    /\ (Dispatched(w) /\ handlers[w].pc = "done") => Len(EventsOf(w, {"WriteMsg"})) = 1
    /\ Dispatched(w) => Len(EventsOf(w, {"WriteMsg"})) <= 1
    /\ (/\ Dispatched(w)
        /\ handlers[w].out.enc1 \/ handlers[w].out.st1
        /\ handlers[w].ids.uniqueID # ""
        /\ ~handlers[w].out.enc2) =>
         Len(EventsOf(w, {"AddInteraction"})) = 1

\* the storage write of the RootTLD branch failed, the correlation branch
\* stored its interaction all the same, and the response was written
C10_Witness ==
  \E w \in Workers :
    /\ handlers[w].pc = "done"
    /\ handlers[w].out.st1
    /\ Len(EventsOf(w, {"AddInteractionWithId"})) = 1
    /\ EventsOf(w, {"AddInteractionWithId"})[1].err
    /\ Len(EventsOf(w, {"AddInteraction"})) = 1
    /\ Len(EventsOf(w, {"WriteMsg"})) = 1

\* the leftmost label of a name
LeftmostLabel(name) == SplitN2(name, ".")[1]

\* what the tokens of a label contribute to the v4 answer: the default IP
\* for an empty token, the decoded quad for a token of eight lower-case hex
\* digits, the overlay value for an overlay key, nothing otherwise
TokenAddresses(label) ==
  LET tokens == splitSubdomainParts(label)
      overlay == h.customRecords.subdomainRecords
  IN {h.options.IPAddress : j \in {j \in 1..Len(tokens) : tokens[j] = ""}}
     \cup {IPString(HexDecode(tokens[j])) :
             j \in {j \in 1..Len(tokens) : tokens[j] # "" /\ HEX_IP_REGEX(tokens[j])}}
     \cup {overlay[ToLower(tokens[j])] :
             j \in {j \in 1..Len(tokens) :
                      /\ tokens[j] # ""
                      /\ ~HEX_IP_REGEX(tokens[j])
                      /\ ToLower(tokens[j]) \in DOMAIN overlay}}

\* the question is answered by the v4 resolver
UsesV4Resolver(q) ==
  \/ q.Qtype = TypeA
  \/ q.Qtype \in {TypeCNAME, TypeANY} /\ ~IsACME(q.Name)

(***************************************************************************)
(* C11: when the leftmost label of the question is no exact key of the     *)
(* record map, the address answered is one of those its tokens contribute  *)
(* (default IP for an empty token, decoded quad for eight lower-case hex   *)
(* digits, overlay value for an overlay key), and the default v4 IP when   *)
(* the label has a single token or no token contributes.                   *)
(***************************************************************************)
C11_AnswerDrawnFromTokens ==
  \A k \in 1..Len(events) :
    LET msg == events[k].msg
    IN (/\ events[k].kind = "WriteMsg"
        /\ Len(Asked(k)) = 1
        /\ UsesV4Resolver(Asked(k)[1])
        /\ ToLower(LeftmostLabel(Asked(k)[1].Name)) \notin DOMAIN h.customRecords.records) =>
         LET label == LeftmostLabel(Asked(k)[1].Name)
             addrs == TokenAddresses(label)
         IN /\ Len(msg.Answer) = 1
            /\ msg.Answer[1].Rrtype = TypeA
            /\ msg.Answer[1].Name = Asked(k)[1].Name
            /\ msg.Answer[1].Target \in
                 IF Len(splitSubdomainParts(label)) = 1 \/ addrs = {}
                 THEN {h.options.IPAddress}
                 ELSE addrs

\* a label made of an empty token and an overlay key was answered with the
\* overlay value
C11_Witness ==
  \E k \in 1..Len(events) :
    /\ events[k].kind = "WriteMsg"
    /\ Len(Asked(k)) = 1
    /\ Len(events[k].msg.Answer) = 1
    /\ Asked(k)[1].Name = "-acme.oob.io."
    /\ Asked(k)[1].Qtype = TypeA
    /\ events[k].msg.Answer[1].Target = "198.51.100.7"

\* some question of the message lies in the ACME subtree
HasACMEQuestion(r) == \E i \in 1..Len(r.Question) : IsACME(r.Question[i].Name)

(***************************************************************************)
(* C12: a message with a question whose lower-cased name starts with       *)
(* "_acme-challenge." causes no storage write and no callback, whatever    *)
(* the apex, the identifiers in the name and RootTLD.                      *)
(***************************************************************************)
C12_NoInteractionForACME ==
  \A k \in 1..Len(events) :
    events[k].kind \in InteractionKinds => ~HasACMEQuestion(handlers[events[k].w].r)

\* with RootTLD on, a reply was written to an ACME message under an apex
\* whose first name carries an identifier, and nothing else was emitted
C12_Witness ==
  \E w \in Workers :
    /\ h.options.RootTLD
    /\ handlers[w].pc = "done"
    /\ HasACMEQuestion(handlers[w].r)
    /\ UnderApex(h.options, handlers[w].r.Question[1].Name)
    /\ Len(StrictHits(h.options, handlers[w].r.Question[1].Name)) > 0
    /\ Len(EventsOf(w, {"WriteMsg"})) = 1
    /\ Len(EventsOf(w, InteractionKinds)) = 0

\* the first configured apex whose FQDN the name ends with
FirstApex(o, name) ==
  o.Domains[CHOOSE i \in 1..Len(o.Domains) :
              /\ HasSuffixI(name, Fqdn(o.Domains[i]))
              /\ \A j \in 1..(i - 1) : ~HasSuffixI(name, Fqdn(o.Domains[j]))]

(***************************************************************************)
(* C13 as stated: with RootTLD on, every non-ACME message whose first name *)
(* ends with the FQDN of a configured apex has, once handleInteraction has *)
(* returned, exactly one AddInteractionWithId call, keyed by the first     *)
(* such apex, with unique ID and full ID equal to the query name, whether  *)
(* or not the name carries an identifier.                                  *)
(***************************************************************************)
C13_RootTLDStoresOnce ==
  \A w \in Workers :
    (/\ Dispatched(w)
     /\ h.options.RootTLD
     /\ UnderApex(h.options, handlers[w].r.Question[1].Name)) =>
      LET calls == EventsOf(w, {"AddInteractionWithId"})
          name  == handlers[w].r.Question[1].Name
      IN /\ Len(calls) = 1
         /\ calls[1].key = FirstApex(h.options, name)
         /\ calls[1].interaction.UniqueID = name
         /\ calls[1].interaction.FullId = name

(***************************************************************************)
(* C13 amended: with RootTLD on, a non-ACME message whose first name ends  *)
(* with the FQDN of a configured apex has, once handleInteraction has      *)
(* returned, no AddInteractionWithId call when the interaction could not   *)
(* be encoded and exactly one otherwise, whether or not the storage        *)
(* accepts it; the call is keyed by the first such apex, with unique ID    *)
(* and full ID equal to the query name, whether or not the name carries an *)
(* identifier.                                                             *)
(***************************************************************************)
C13_RootTLDStoresOnceIfEncoded ==
  \A w \in Workers :
    (/\ Dispatched(w)
     /\ h.options.RootTLD
     /\ UnderApex(h.options, handlers[w].r.Question[1].Name)) =>
      LET calls == EventsOf(w, {"AddInteractionWithId"})
          name  == handlers[w].r.Question[1].Name
      IN IF handlers[w].out.enc1
         THEN Len(calls) = 0
         ELSE /\ Len(calls) = 1
              /\ calls[1].key = FirstApex(h.options, name)
              /\ calls[1].interaction.UniqueID = name
              /\ calls[1].interaction.FullId = name

\* a name without identifier under the second configured apex was stored
\* under that apex
C13_Witness ==
  \E w \in Workers :
    /\ handlers[w].pc = "done"
    /\ Dispatched(w)
    /\ h.options.Domains = <<"sub.oob.io", "oob.io">>
    /\ handlers[w].r.Question[1].Name = "www.oob.io."
    /\ handlers[w].ids = NoMatch
    /\ Len(EventsOf(w, {"AddInteractionWithId"})) = 1
    /\ EventsOf(w, {"AddInteractionWithId"})[1].key = "oob.io"
    /\ EventsOf(w, {"AddInteractionWithId"})[1].interaction.UniqueID = "www.oob.io."

\* the positions in the log of the calls of the given kind made by handler w
PositionsOf(w, kind) == {k \in 1..Len(events) : events[k].w = w /\ events[k].kind = kind}

(***************************************************************************)
(* C14: the callback is invoked only in the RootTLD branch, that is only   *)
(* with RootTLD on and a first name under a configured apex, also when an  *)
(* identifier is extracted and stored; when that branch runs and a         *)
(* callback is configured it is invoked exactly once, with the interaction *)
(* of that branch, before the storage write of the branch.                 *)
(***************************************************************************)
C14_CallbackOnlyFromRootTLD ==
  \A w \in Workers :
    LET calls == PositionsOf(w, "OnResult")
    IN /\ calls # {} =>
            /\ h.options.OnResult
            /\ h.options.RootTLD
            /\ UnderApex(h.options, handlers[w].r.Question[1].Name)
       /\ (/\ Dispatched(w)
           /\ h.options.OnResult
           /\ h.options.RootTLD
           /\ UnderApex(h.options, handlers[w].r.Question[1].Name)) =>
            /\ Cardinality(calls) = 1
            /\ \A k \in calls : events[k].interaction.UniqueID = handlers[w].r.Question[1].Name
            /\ \A k \in calls : \A j \in PositionsOf(w, "AddInteractionWithId") : k < j

\* with RootTLD on and an identifier in the name the callback came once,
\* first, followed by the two storage writes
C14_Witness ==
  \E w \in Workers :
    /\ Dispatched(w)
    /\ handlers[w].ids.uniqueID # ""
    /\ Len(EventsOf(w, InteractionKinds)) = 3
    /\ EventsOf(w, InteractionKinds)[1].kind = "OnResult"
    /\ EventsOf(w, InteractionKinds)[2].kind = "AddInteractionWithId"
    /\ EventsOf(w, InteractionKinds)[3].kind = "AddInteraction"

(***************************************************************************)
(* C15 as stated: a malformed entry of RealIPFrom is skipped: no handler   *)
(* dies in origin-IP resolution, every handler that got as far as          *)
(* recording an interaction goes on to write its response, and an address  *)
(* other than the transport host is recorded only for a peer that a        *)
(* well-formed entry lists.                                                *)
(***************************************************************************)
C15_MalformedEntriesSkipped ==
  /\ ~crashed
  /\ \A w \in Workers : handlers[w].pc # "panic"
  /\ \A k \in 1..Len(events) :
       events[k].kind \in InteractionKinds =>
         LET host == SplitHost(handlers[events[k].w].remoteAddr)
         IN events[k].interaction.RemoteAddress # host =>
              PeerListed(h.options.RealIPFrom, host)

\* every key of the map is lower-case and every value parses as an address
ValidRecordMap(m) ==
  \A k \in DOMAIN m : k = ToLower(k) /\ ParseIP(m[k]) # NilIP

\* some written reply holds an A or AAAA answer without an address
NilAddressAnswered ==
  \E k \in 1..Len(events) :
    /\ events[k].kind = "WriteMsg"
    /\ \E j \in 1..Len(events[k].msg.Answer) :
         /\ events[k].msg.Answer[j].Rrtype \in {TypeA, TypeAAAA}
         /\ events[k].msg.Answer[j].Target = IPString(NilIP)

(***************************************************************************)
(* C16 as stated: after construction every value of the four custom-record *)
(* maps is a valid IP address and every key is lower-case, and no A or     *)
(* AAAA answer carries a nil address.                                      *)
(***************************************************************************)
C16_CustomRecordsValid ==
  /\ ValidRecordMap(h.customRecords.records)
  /\ ValidRecordMap(h.customRecords.v6Records)
  /\ ValidRecordMap(h.customRecords.subdomainRecords)
  /\ ValidRecordMap(h.customRecords.subdomainV6Records)
  /\ ~NilAddressAnswered

\* the name is the FQDN of a configured apex
IsApex(o, name) == \E i \in 1..Len(o.Domains) : name = Fqdn(o.Domains[i])

\* the answers expected for an NS, MX or SOA question from the names of apex
ExpectedLookupAnswer(o, q, apex) ==
  IF q.Qtype = TypeNS THEN NsPairOf(o, q.Name, apex)
  ELSE IF q.Qtype = TypeMX THEN <<RR(q.Name, TypeMX, o.DnsTTL, "mail." \o apex, <<1>>)>>
  ELSE <<RR(q.Name, TypeSOA, 0, "ns1." \o apex \o " " \o CertificateAuthority, <<1, 60, 60>>)>>

\* the question is answered from the NS or MX table
UsesLookup(q) ==
  \/ q.Qtype \in {TypeNS, TypeSOA}
  \/ q.Qtype = TypeMX /\ ~IsACME(q.Name)

\* the leftmost label of the name selects no custom v4 record
NoCustomV4(name) ==
  /\ ToLower(LeftmostLabel(name)) \notin DOMAIN h.customRecords.records
  /\ \/ Len(splitSubdomainParts(LeftmostLabel(name))) = 1
     \/ TokenAddresses(LeftmostLabel(name)) \subseteq {h.options.IPAddress}

(***************************************************************************)
(* C17 as stated: a query whose name equals no configured apex gets the    *)
(* name servers of the primary apex, is answered with the default IP and   *)
(* produces no interaction.                                                *)
(***************************************************************************)
C17_NonApexNameIsInert ==
  \A k \in 1..Len(events) :
    LET msg == events[k].msg
    IN (/\ events[k].kind = "WriteMsg"
        /\ Len(Asked(k)) = 1
        /\ Asked(k)[1].Qtype = TypeA
        /\ ~IsACME(Asked(k)[1].Name)
        /\ ~IsApex(h.options, Asked(k)[1].Name)) =>
         /\ msg.Ns = NsPairOf(h.options, Asked(k)[1].Name, Fqdn(h.options.Domains[1]))
         /\ msg.Answer[1].Target = h.options.IPAddress
         /\ Len(EventsOf(events[k].w, InteractionKinds)) = 0

(***************************************************************************)
(* C17 amended: NS and SOA answers, MX answers outside the ACME subtree,   *)
(* and the authority block of A and AAAA answers take their names from the *)
(* question name when it is exactly the FQDN of a configured apex and from *)
(* the first configured apex otherwise; a message whose name ends with no  *)
(* configured apex produces no interaction, and its A question is answered *)
(* with the default IP unless the leftmost label selects a custom record.  *)
(***************************************************************************)
C17_ExactNameElsePrimary ==
  \A k \in 1..Len(events) :
    LET msg == events[k].msg
    IN (events[k].kind = "WriteMsg" /\ Len(Asked(k)) = 1) =>
         LET q    == Asked(k)[1]
             apex == IF IsApex(h.options, q.Name) THEN q.Name ELSE Fqdn(h.options.Domains[1])
         IN /\ UsesLookup(q) => msg.Answer = ExpectedLookupAnswer(h.options, q, apex)
            /\ q.Qtype \in {TypeA, TypeAAAA} =>
                 /\ msg.Ns = NsPairOf(h.options, q.Name, apex)
                 /\ msg.Extra = GluePairOf(h.options, apex)
            /\ ~UnderApex(h.options, q.Name) =>
                 /\ Len(EventsOf(events[k].w, InteractionKinds)) = 0
                 /\ (q.Qtype = TypeA /\ NoCustomV4(q.Name)) =>
                      msg.Answer = <<RR(q.Name, TypeA, h.options.DnsTTL, h.options.IPAddress, <<>>)>>

\* an MX question for a name under no apex was answered with the mail host
\* of the first apex and left no interaction
C17_Witness ==
  \E k \in 1..Len(events) :
    /\ events[k].kind = "WriteMsg"
    /\ Len(h.options.Domains) = 2
    /\ Asked(k) = <<Question(ID1 \o ".alien.org.", TypeMX)>>
    /\ Len(events[k].msg.Answer) = 1
    /\ events[k].msg.Answer[1].Target = "mail." \o Fqdn(h.options.Domains[1])
    /\ Len(EventsOf(events[k].w, InteractionKinds)) = 0

\* the TXT answers of a reply owned by the name
TXTAnswersOf(msg, name) ==
  SelectSeq(msg.Answer, LAMBDA rr : rr.Rrtype = TypeTXT /\ rr.Name = name)

(***************************************************************************)
(* C18: in a written reply to a message whose one ACME question is a TXT   *)
(* question, the store was asked once, for the lower-cased zone, and the   *)
(* answers of that question are one TXT RR per record returned, in order,  *)
(* each with the value and the TTL of its record; every other answer       *)
(* belongs to another question.                                            *)
(***************************************************************************)
C18_OneTXTPerStoreRecord ==
  \A k \in 1..Len(events) :
    LET msg == events[k].msg
        hd  == handlers[events[k].w]
    IN events[k].kind = "WriteMsg" =>
         \A i \in 1..Len(Asked(k)) :
           (/\ IsACME(Asked(k)[i].Name)
            /\ Asked(k)[i].Qtype = TypeTXT
            /\ \A j \in 1..Len(Asked(k)) : j # i => ~IsACME(Asked(k)[j].Name)) =>
             LET zone == Asked(k)[i].Name
                 txt  == TXTAnswersOf(msg, zone)
             IN /\ Len(hd.acme) = 1
                /\ ~hd.acme[1].err
                /\ hd.acme[1].zone = ToLower(zone)
                /\ txt = [n \in 1..Len(hd.acme[1].records) |->
                            RR(zone, TypeTXT, hd.acme[1].records[n].TTL,
                               hd.acme[1].records[n].Value, <<>>)]
                /\ \A n \in 1..Len(msg.Answer) :
                     msg.Answer[n].Name = zone => msg.Answer[n].Rrtype = TypeTXT

\* two records of the store, with TTLs other than the server's, were
\* answered for a zone spelled in mixed case
C18_Witness ==
  \E k \in 1..Len(events) :
    /\ events[k].kind = "WriteMsg"
    /\ Asked(k) = <<Question("_ACME-Challenge." \o ID1 \o ".oob.io.", TypeTXT)>>
    /\ handlers[events[k].w].acme[1].zone = "_acme-challenge." \o ID1 \o ".oob.io."
    /\ Len(events[k].msg.Answer) = 2
    /\ events[k].msg.Answer[1].Ttl = 30
    /\ events[k].msg.Answer[2].Ttl = 45
    /\ events[k].msg.Answer[2].Target = "token456"
    /\ h.timeToLive = DefaultTTL

\* the place of a call in the order callback, AddInteractionWithId,
\* AddInteraction, transport write
RankOf(kind) ==
  IF kind = "OnResult" THEN 1
  ELSE IF kind = "AddInteractionWithId" THEN 2
  ELSE IF kind = "AddInteraction" THEN 3
  ELSE 4

(***************************************************************************)
(* C19: every callback or storage call of a handler is made for a message  *)
(* without ACME question, once the loop has passed every question, and     *)
(* before the transport write of the handler; the calls come in the order  *)
(* callback, AddInteractionWithId, AddInteraction; the RawResponse of each *)
(* is the dump of the reply as it stands after the loop, which is the      *)
(* reply that is written; and the handler ends with the write.             *)
(***************************************************************************)
C19_EffectsBetweenAnswerAndWrite ==
  \A k \in 1..Len(events) :
    events[k].kind \in InteractionKinds =>
      LET w  == events[k].w
          hd == handlers[w]
      IN /\ ~HasACMEQuestion(hd.r)
         /\ hd.qi = Len(hd.r.Question) + 1
         /\ events[k].interaction.RawResponse = MsgString(hd.m)
         /\ \A j \in 1..Len(events) :
              (events[j].w = w /\ j < k) => RankOf(events[j].kind) < RankOf(events[k].kind)
         /\ \A j \in PositionsOf(w, "WriteMsg") : k < j /\ events[j].msg = hd.m
         /\ hd.pc = "done" => PositionsOf(w, "WriteMsg") # {}

\* a two-question message for which the callback, both storage calls and
\* the write were made, each interaction holding the dump of the reply with
\* both answers
C19_Witness ==
  /\ Len(events) = 4
  /\ [k \in 1..4 |-> events[k].kind]
       = <<"OnResult", "AddInteractionWithId", "AddInteraction", "WriteMsg">>
  /\ Asked(4)
       = <<Question(ID1 \o ".oob.io.", TypeA), Question(ID2 \o ".alt.io.", TypeAAAA)>>
  /\ Len(events[4].msg.Answer) = 2
  /\ \A k \in 1..3 : events[k].interaction.RawResponse = MsgString(events[4].msg)

\* the Qtypes the switch of ServeDNS has a case for
Handled(q) ==
  IF IsACME(q.Name) THEN q.Qtype \in {TypeSOA, TypeTXT, TypeNS, TypeA, TypeAAAA}
  ELSE q.Qtype \in {TypeA, TypeCNAME, TypeANY, TypeAAAA, TypeMX, TypeNS, TypeSOA, TypeTXT}

\* the type of the RRs that answer the question
AnswerTypeOf(q) == IF q.Qtype \in {TypeA, TypeCNAME, TypeANY} THEN TypeA ELSE q.Qtype

\* the request with its first question only
FirstOnly(r) == [r EXCEPT !.Question = <<r.Question[1]>>]

\* every question of a handled type has its answers in the reply (an ACME
\* TXT question has as many as the store returned, possibly none), and the
\* answers stand in the order of the questions
AnsweredInOrder(qs, msg) ==
  /\ \A i \in 1..Len(qs) :
       (Handled(qs[i])
          /\ ~(IsACME(qs[i].Name) /\ qs[i].Qtype = TypeTXT)) =>
         \E a \in 1..Len(msg.Answer) :
           /\ msg.Answer[a].Name = qs[i].Name
           /\ msg.Answer[a].Rrtype = AnswerTypeOf(qs[i])
  /\ msg.Answer = Concat([i \in 1..Len(qs) |->
                            SelectSeq(msg.Answer,
                                      LAMBDA rr : rr.Name = qs[i].Name)])

\* the identifier the strict walk over the name ends with, "" when none
StrictID(o, name) ==
  LET hits == StrictHits(o, name)
  IN IF Len(hits) = 0 THEN "" ELSE hits[Len(hits)].token

\* the identifier the scan of the dump ends with, "" when none
ScanID(o, text) ==
  LET hits == ScanHits(o, text)
  IN IF Len(hits) = 0 THEN "" ELSE ToLower(hits[Len(hits)])

\* what every interaction of handler w takes from the first question
\* whatever the mode: the apex test, the identity and key of the RootTLD
\* branch, and the recorded query type
FirstQuestionIdentity(w) ==
  LET q1 == handlers[w].r.Question[1]
  IN \A k \in 1..Len(events) :
       (events[k].w = w /\ events[k].kind \in InteractionKinds) =>
         /\ UnderApex(h.options, q1.Name)
         /\ events[k].interaction.QType = toQType(q1.Qtype)
         /\ events[k].kind \in {"OnResult", "AddInteractionWithId"} =>
              events[k].interaction.UniqueID = q1.Name
         /\ events[k].kind = "AddInteractionWithId" =>
              events[k].key = FirstApex(h.options, q1.Name)

\* the AddInteraction calls of handler w are those the identifier id asks
\* for, when the encoding did not fail
StoresIdentifier(w, id) ==
  LET adds == EventsOf(w, {"AddInteraction"})
  IN ~handlers[w].out.enc2 =>
       /\ Len(adds) = (IF id # "" /\ UnderApex(h.options, handlers[w].r.Question[1].Name)
                       THEN 1 ELSE 0)
       /\ Len(adds) = 1 => adds[1].interaction.UniqueID = id

(***************************************************************************)
(* C20 as stated: for a message with several questions, a written reply    *)
(* answers every question of a handled type, in question order, and the    *)
(* interactions are those of the first question alone: apex, identity and  *)
(* query type from the first question, and the stored identifier the one   *)
(* extracted from the request reduced to its first question.               *)
(***************************************************************************)
C20_FirstQuestionOnly ==
  \A w \in Workers :
    Len(handlers[w].r.Question) > 1 =>
      /\ \A k \in PositionsOf(w, "WriteMsg") : AnsweredInOrder(handlers[w].r.Question, events[k].msg)
      /\ FirstQuestionIdentity(w)
      /\ Dispatched(w) =>
           StoresIdentifier(w,
             IF h.options.ScanEverywhere
             THEN ScanID(h.options, MsgString(FirstOnly(handlers[w].r)))
             ELSE StrictID(h.options, handlers[w].r.Question[1].Name))

(***************************************************************************)
(* C20 amended: for a message with several questions, a written reply      *)
(* answers every question of a handled type, in question order; apex,      *)
(* RootTLD identity and query type of the interactions come from the first *)
(* question; the stored identifier is extracted from the first name in     *)
(* strict mode and from the dump of the whole request, later questions     *)
(* included, in scan-everywhere mode.                                      *)
(***************************************************************************)
C20_FirstQuestionExceptScan ==
  \A w \in Workers :
    Len(handlers[w].r.Question) > 1 =>
      /\ \A k \in PositionsOf(w, "WriteMsg") : AnsweredInOrder(handlers[w].r.Question, events[k].msg)
      /\ FirstQuestionIdentity(w)
      /\ Dispatched(w) =>
           StoresIdentifier(w,
             IF h.options.ScanEverywhere
             THEN ScanID(h.options, MsgString(handlers[w].r))
             ELSE StrictID(h.options, handlers[w].r.Question[1].Name))

\* in scan-everywhere mode a message whose first name carries no identifier
\* was answered for both questions and stored under the identifier of the
\* second name, with the query type of the first
C20_Witness ==
  \E w \in Workers :
    /\ h.options.ScanEverywhere
    /\ handlers[w].pc = "done"
    /\ handlers[w].r.Question
         = <<Question("www.oob.io.", TypeMX), Question(ID1 \o ".oob.io.", TypeA)>>
    /\ Len(EventsOf(w, {"WriteMsg"})) = 1
    /\ LET msg == EventsOf(w, {"WriteMsg"})[1].msg
       IN /\ Len(msg.Answer) = 2
          /\ msg.Answer[1].Rrtype = TypeMX
          /\ msg.Answer[2].Rrtype = TypeA
    /\ Len(EventsOf(w, {"AddInteraction"})) = 1
    /\ EventsOf(w, {"AddInteraction"})[1].interaction.UniqueID = ID1
    /\ EventsOf(w, {"AddInteraction"})[1].interaction.QType = "MX"

\* the places of the dump where a stretch of the identifier length is,
\* once lower-cased, a correlation identifier; such a stretch holds no
\* separator, so it is a window of one chunk, and the windows are visited
\* in the order of their places
MatchPlaces(o, text) ==
  {p \in 1..(Len(text) - o.CorrelationIdLength + 1) :
     isCorrelationID(o, ToLower(SubSeq(text, p, p + o.CorrelationIdLength - 1)))}

\* the stretch at the last of the places
LastWindow(o, text, places) ==
  LET last == CHOOSE p \in places : \A q \in places : q <= p
  IN SubSeq(text, last, last + o.CorrelationIdLength - 1)

(***************************************************************************)
(* C21: in scan-everywhere mode, once handleInteraction has returned and   *)
(* unless the interaction could not be encoded, a message whose first name *)
(* ends with a configured apex has one AddInteraction exactly when some    *)
(* window of the identifier length in the request dump is an identifier    *)
(* once lower-cased; its unique ID is the last such window lower-cased and *)
(* its full ID that window as written.  A message whose first name ends    *)
(* with no configured apex has none, whatever the dump holds.              *)
(***************************************************************************)
C21_ScanLastWindowUnderApex ==
  \A w \in Workers :
    (/\ Dispatched(w)
     /\ h.options.ScanEverywhere
     /\ ~handlers[w].out.enc2) =>
      LET text   == MsgString(handlers[w].r)
          adds   == EventsOf(w, {"AddInteraction"})
          places == IF UnderApex(h.options, handlers[w].r.Question[1].Name)
                    THEN MatchPlaces(h.options, text) ELSE {}
      IN IF places # {}
         THEN LET win == LastWindow(h.options, text, places)
              IN /\ Len(adds) = 1
                 /\ Len(win) = h.options.CorrelationIdLength
                 /\ adds[1].interaction.FullId = win
                 /\ adds[1].interaction.UniqueID = ToLower(win)
         ELSE Len(adds) = 0

\* an upper-case identifier in the name was stored lower-cased with the
\* window as written for full ID
C21_Witness ==
  \E w \in Workers :
    /\ h.options.ScanEverywhere
    /\ handlers[w].pc = "done"
    /\ Dispatched(w)
    /\ handlers[w].r.Question = <<Question(IDU \o ".oob.io.", TypeA)>>
    /\ Len(EventsOf(w, {"AddInteraction"})) = 1
    /\ EventsOf(w, {"AddInteraction"})[1].interaction.UniqueID = ID1
    /\ EventsOf(w, {"AddInteraction"})[1].interaction.FullId = IDU

\* in scan-everywhere mode a name under no configured apex that carries an
\* identifier was answered and nothing was stored
C21_NoApexWitness ==
  \E w \in Workers :
    /\ h.options.ScanEverywhere
    /\ handlers[w].pc = "done"
    /\ Dispatched(w)
    /\ handlers[w].r.Question = <<Question(ID1 \o ".alien.org.", TypeA)>>
    /\ MatchPlaces(h.options, MsgString(handlers[w].r)) # {}
    /\ Len(EventsOf(w, InteractionKinds)) = 0

\* the invocations that have passed the entry of ServeDNS
Entered == {w \in Workers : handlers[w].pc # "recv"}

\* the invocations that pass the entry of ServeDNS in the step
Entering == {w \in Workers : handlers[w].pc = "recv" /\ handlers'[w].pc # "recv"}

\* the counter stands at the number of messages received
CounterCountsMessages == stats = Cardinality(Entered)

\* every step adds to the counter the number of invocations that enter in
\* it, which is at most one
CountedAtEntry ==
  /\ Cardinality(Entering) <= 1
  /\ stats' = stats + Cardinality(Entering)

\* the invocation for a message without question ends at its entry, and
\* that step changes nothing but the counter and the invocation itself
NoQuestionIsInert ==
  \A w \in Workers :
    Len(handlers[w].r.Question) = 0 =>
      /\ handlers[w].pc \in {"recv", "done"}
      /\ Len(EventsOf(w, AllKinds)) = 0
      /\ w \in Entering =>
           /\ handlers'[w].pc = "done"
           /\ events' = events
           /\ h' = h
           /\ crashed' = crashed
           /\ \A v \in Workers \ {w} : handlers'[v] = handlers[v]

(***************************************************************************)
(* C22: with several invocations of ServeDNS interleaved, the counter      *)
(* always stands at the number of messages received so far, each step that *)
(* takes a message in adds exactly one, and a message without question is  *)
(* counted, then ends at once: no reply, no storage write, no callback,    *)
(* and nothing else of the server or of the other invocations changes.     *)
(***************************************************************************)
C22_CounterExactUnderInterleaving ==
  /\ []CounterCountsMessages
  /\ [][CountedAtEntry /\ NoQuestionIsInert]_vars

\* two messages in flight, the one without question counted and done after
\* the other had been counted, while the other has yet to be written
C22_Witness ==
  /\ stats = 2
  /\ \E w, v \in Workers :
       /\ Len(handlers[w].r.Question) = 0
       /\ handlers[w].pc = "done"
       /\ handlers[v].pc = "write"
       /\ Len(EventsOf(v, {"AddInteraction"})) = 1
       /\ Len(EventsOf(w, AllKinds)) = 0
====
